---- MODULE Spec2Model ----
(***************************************************************************)
(* The model cascade of backend/utils/geminiAI.js: tryModels(models, fn)   *)
(* tries fn on each model name in order, skips a model whose error is a    *)
(* quota or a 404 error, rethrows any other error, and throws one          *)
(* synthesized error when every model was skipped.                         *)
(*                                                                         *)
(* Around it, the callers: analyzeCTScan and getChatbotResponse, which     *)
(* test the API key and await the cascade, and the routes POST             *)
(* /api/predict (backend/routes/prediction.js) and POST /api/chatbot       *)
(* (backend/routes/chatbot.js), each request with a cascade of its own.    *)
(* Spec follows one tryModels invocation, SpecRequest one request with     *)
(* every input, SpecServer two overlapping requests.                       *)
(*                                                                         *)
(* In front of them, the React client: App with UploadSection              *)
(* (frontend/src/App.js, components/UploadSection.js), which uploads a     *)
(* scan and shows its result or an error card, and Chatbot                 *)
(* (components/Chatbot.js) with sendChatMessage (services/api.js), which   *)
(* forwards the conversation so far.  SpecApp follows the first, SpecChat  *)
(* the second.                                                             *)
(*                                                                         *)
(* A JavaScript string is a sequence of one-character strings, so that     *)
(* String.prototype.includes is a real substring test and letter case is   *)
(* visible.  "EN_DASH" stands for the one character U+2013.                *)
(***************************************************************************)
EXTENDS Naturals, Sequences, FiniteSets, TLC

VARIABLES
    models,       \* the candidate list tryModels was called with
    pc,           \* where the invocation is: idle, loop, await, done
    idx,          \* 1-based position of the for..of loop in models
    errors,       \* const errors = []: the entries pushed for skipped models
    calls,        \* the model names fn has been invoked with, in order
    settled,      \* how each fn invocation resolved, in order
    completions,  \* what tryModels delivered to its caller (returns, throws)
    env,          \* process.env.GEMINI_API_KEY
    config,       \* the arrays VISION_MODELS and CHAT_MODELS of the module
    reqs,         \* the HTTP requests (and direct calls) the server handles
    casc,         \* the tryModels invocation of each request
    uploads,      \* the files in the uploads folder
    currentPage,  \* App: the page shown
    appResult,    \* App: result, the response of the last good upload, or null
    isLoading,    \* App: an upload is being waited for
    appError,     \* App: error, the message of the last upload error, or null
    backendStatus,\* App: checking, online, offline
    selectedFile, \* UploadSection: a file is selected
    sent,         \* the uploadCTScan calls made so far and how each stands
    messages,     \* Chatbot: the conversation shown
    isTyping,     \* Chatbot: a reply is being waited for
    chatRequest,  \* the body of the POST /chatbot request in flight
    conversation  \* what getChatbotResponse received and gave to startChat

\* The variables of one tryModels invocation looked at on its own.
cascadeVars == <<models, pc, idx, errors, calls, settled, completions>>

\* The variables of the server around it.
requestVars == <<env, config, reqs, casc, uploads>>

\* The variables of the frontend.
clientVars ==
    <<currentPage, appResult, isLoading, appError, backendStatus,
      selectedFile,
      sent, messages, isTyping, chatRequest, conversation>>

vars ==
    <<models, pc, idx, errors, calls, settled, completions,
      env, config, reqs, casc, uploads,
      currentPage, appResult, isLoading, appError, backendStatus,
      selectedFile,
      sent, messages, isTyping, chatRequest, conversation>>

\* Longest candidate list explored.
MaxModels == 3

(* ---- strings of the source ---- *)

\* 'gemini-2.0-flash'
Gemini20Flash ==
    <<"g", "e", "m", "i", "n", "i", "-", "2", ".", "0", "-", "f", "l", "a",
      "s", "h">>
\* 'gemini-2.0-flash-lite'
Gemini20FlashLite ==
    <<"g", "e", "m", "i", "n", "i", "-", "2", ".", "0", "-", "f", "l", "a",
      "s", "h", "-", "l", "i", "t", "e">>
\* 'gemini-2.5-flash'
Gemini25Flash ==
    <<"g", "e", "m", "i", "n", "i", "-", "2", ".", "5", "-", "f", "l", "a",
      "s", "h">>
\* 'gemini-flash-lite-latest'
GeminiFlashLiteLatest ==
    <<"g", "e", "m", "i", "n", "i", "-", "f", "l", "a", "s", "h", "-", "l",
      "i", "t", "e", "-", "l", "a", "t", "e", "s", "t">>
\* Models tried in order, first success wins.
VISION_MODELS ==
    <<Gemini20Flash, Gemini20FlashLite, Gemini25Flash, GeminiFlashLiteLatest>>

CHAT_MODELS ==
    <<Gemini20Flash, Gemini20FlashLite, Gemini25Flash, GeminiFlashLiteLatest>>

\* the needle '429'
S429 ==
    <<"4", "2", "9">>

\* the needle 'Too Many'
STooMany ==
    <<"T", "o", "o", " ", "M", "a", "n", "y">>

\* the needle 'quota'
SQuota ==
    <<"q", "u", "o", "t", "a">>

\* the needle 'RESOURCE_EXHAUSTED'
SResourceExhausted ==
    <<"R", "E", "S", "O", "U", "R", "C", "E", "_", "E", "X", "H", "A", "U",
      "S", "T", "E", "D">>

\* the needle '404'
S404 ==
    <<"4", "0", "4">>

\* the needle and the reason 'not found'
SNotFound ==
    <<"n", "o", "t", " ", "f", "o", "u", "n", "d">>

\* the reason 'quota exceeded'
SQuotaExceeded ==
    <<"q", "u", "o", "t", "a", " ", "e", "x", "c", "e", "e", "d", "e", "d">>

\* ': ' between the model name and the reason
SColonSpace ==
    <<":", " ">>

\* the separator of errors.join(' | ')
SBar ==
    <<" ", "|", " ">>

\* 'All Gemini models quota-exceeded. Please wait a minute and try again.\nDetails: '
AggregateHeader ==
    <<"A", "l", "l", " ", "G", "e", "m", "i", "n", "i", " ", "m", "o", "d",
      "e", "l", "s", " ", "q", "u", "o", "t", "a", "-", "e", "x", "c", "e",
      "e", "d", "e", "d", ".", " ", "P", "l", "e", "a", "s", "e", " ", "w",
      "a", "i", "t", " ", "a", " ", "m", "i", "n", "u", "t", "e", " ", "a",
      "n", "d", " ", "t", "r", "y", " ", "a", "g", "a", "i", "n", ".", "\n",
      "D", "e", "t", "a", "i", "l", "s", ":", " ">>

\* '\nFree tier allows 15-30 req/min. If you sent many requests in a row, wait 60 seconds.'
AggregateHint ==
    <<"\n", "F", "r", "e", "e", " ", "t", "i", "e", "r", " ", "a", "l", "l",
      "o", "w", "s", " ", "1", "5", "EN_DASH", "3", "0", " ", "r", "e", "q",
      "/", "m", "i", "n", ".", " ", "I", "f", " ", "y", "o", "u", " ", "s",
      "e", "n", "t", " ", "m", "a", "n", "y", " ", "r", "e", "q", "u", "e",
      "s", "t", "s", " ", "i", "n", " ", "a", " ", "r", "o", "w", ",", " ",
      "w", "a", "i", "t", " ", "6", "0", " ", "s", "e", "c", "o", "n", "d",
      "s", ".">>

(* ---- error messages fn can fail with ---- *)

\* an error message fn can fail with: '429 Too Many Requests'
Msg429TooManyRequests ==
    <<"4", "2", "9", " ", "T", "o", "o", " ", "M", "a", "n", "y", " ", "R",
      "e", "q", "u", "e", "s", "t", "s">>

\* an error message fn can fail with: 'model not found (404)'
MsgModelNotFound404 ==
    <<"m", "o", "d", "e", "l", " ", "n", "o", "t", " ", "f", "o", "u", "n",
      "d", " ", "(", "4", "0", "4", ")">>

\* an error message fn can fail with: 'RESOURCE_EXHAUSTED'
MsgResourceExhausted ==
    <<"R", "E", "S", "O", "U", "R", "C", "E", "_", "E", "X", "H", "A", "U",
      "S", "T", "E", "D">>

\* an error message fn can fail with: 'invalid request schema'
MsgInvalidRequestSchema ==
    <<"i", "n", "v", "a", "l", "i", "d", " ", "r", "e", "q", "u", "e", "s",
      "t", " ", "s", "c", "h", "e", "m", "a">>

\* an error message fn can fail with: 'daily quota exceeded'
MsgDailyQuota ==
    <<"d", "a", "i", "l", "y", " ", "q", "u", "o", "t", "a", " ", "e", "x",
      "c", "e", "e", "d", "e", "d">>

\* an error message fn can fail with: 'Too Many Requests'
MsgTooManyRequests ==
    <<"T", "o", "o", " ", "M", "a", "n", "y", " ", "R", "e", "q", "u", "e",
      "s", "t", "s">>

\* an error message fn can fail with: 'too many requests'
MsgLowerTooMany ==
    <<"t", "o", "o", " ", "m", "a", "n", "y", " ", "r", "e", "q", "u", "e",
      "s", "t", "s">>

\* an error message fn can fail with: 'Not Found'
MsgTitleNotFound ==
    <<"N", "o", "t", " ", "F", "o", "u", "n", "d">>

\* an error message fn can fail with: 'NOT FOUND'
MsgUpperNotFound ==
    <<"N", "O", "T", " ", "F", "O", "U", "N", "D">>

\* an error message fn can fail with: 'model is not found'
MsgIsNotFound ==
    <<"m", "o", "d", "e", "l", " ", "i", "s", " ", "n", "o", "t", " ", "f",
      "o", "u", "n", "d">>

\* the upper-case letters
UpperLetters ==
    <<"A", "B", "C", "D", "E", "F", "G", "H", "I", "J", "K", "L", "M", "N",
      "O", "P", "Q", "R", "S", "T", "U", "V", "W", "X", "Y", "Z">>

\* the lower-case letters
LowerLetters ==
    <<"a", "b", "c", "d", "e", "f", "g", "h", "i", "j", "k", "l", "m", "n",
      "o", "p", "q", "r", "s", "t", "u", "v", "w", "x", "y", "z">>

(* ---- String.prototype helpers ---- *)

\* haystack.includes(needle): needle occurs as a contiguous run in haystack.
Includes(haystack, needle) ==
    \E i \in 0..Len(haystack) :
        /\ i + Len(needle) <= Len(haystack)
        /\ SubSeq(haystack, i + 1, i + Len(needle)) = needle

\* c.toLowerCase() for one character.
LowerChar(c) ==
    IF \E i \in 1..Len(UpperLetters) : UpperLetters[i] = c
    THEN LowerLetters[CHOOSE i \in 1..Len(UpperLetters) : UpperLetters[i] = c]
    ELSE c

\* s.toLowerCase()
ToLowerCase(s) ==
    [i \in 1..Len(s) |-> LowerChar(s[i])]

\* parts.join(sep)
RECURSIVE Join(_, _)
Join(parts, sep) ==
    IF Len(parts) = 0 THEN <<>>
    ELSE IF Len(parts) = 1 THEN parts[1]
    ELSE parts[1] \o sep \o Join(Tail(parts), sep)

(* ---- helpers of the cascade ---- *)

\* isQuotaError testing the status code alone.
isQuotaErrorOnly429(err) ==
    Includes(err.message, S429)

\* isQuotaError without the test for the word 'quota'.
isQuotaErrorNoQuotaWord(err) ==
    \/ Includes(err.message, S429)
    \/ Includes(err.message, STooMany)
    \/ Includes(err.message, SResourceExhausted)

isQuotaError(err) ==
    \/ Includes(err.message, S429)
    \/ Includes(err.message, STooMany)
    \/ Includes(err.message, SQuota)
    \/ Includes(err.message, SResourceExhausted)

\* isNotFoundError testing the status code alone.
isNotFoundErrorOnly404(err) ==
    Includes(err.message, S404)

isNotFoundError(err) ==
    \/ Includes(err.message, S404)
    \/ Includes(err.message, SNotFound)

\* Only the first model's '429' is reported as quota exceeded.
SkipReasonFirstOnly(err) ==
    IF Includes(err.message, S429) /\ err.origin <= 1
    THEN SQuotaExceeded
    ELSE SNotFound

\* The reason pushed for a skipped model: decided by '429' alone.
SkipReason(err) ==
    IF Includes(err.message, S429) THEN SQuotaExceeded ELSE SNotFound

\* `${modelName}: ${reason}`
ErrorEntry(modelName, err) ==
    modelName \o SColonSpace \o SkipReason(err)

\* The aggregate message reporting the last skipped model only.
AggregateMessageLastOnly(entries) ==
    AggregateHeader
        \o (IF Len(entries) = 0 THEN <<>> ELSE entries[Len(entries)])
        \o AggregateHint

\* The message of the error thrown when all models are exhausted.
AggregateMessage(entries) ==
    AggregateHeader \o Join(entries, SBar) \o AggregateHint

\* An error object: its message, and which step created it (the number of the
\* fn invocation that raised it, 0 for the error tryModels constructs).
ErrorBy(origin, message) ==
    [message |-> message, origin |-> origin]

\* new Error(`All Gemini models quota-exceeded. ...`)
AggregateError(entries) ==
    ErrorBy(0, AggregateMessage(entries))

(* ---- what fn can do ---- *)

\* An error message that is itself the message of an exhausted cascade.
MsgNestedAggregate ==
    AggregateMessage(<<Gemini20FlashLite \o SColonSpace \o SQuotaExceeded>>)

Messages ==
    { Msg429TooManyRequests, MsgModelNotFound404, MsgResourceExhausted,
      MsgInvalidRequestSchema, MsgDailyQuota, MsgTooManyRequests,
      MsgLowerTooMany, MsgTitleNotFound, MsgUpperNotFound, MsgIsNotFound,
      MsgNestedAggregate }

\* Results fn can resolve with (opaque to the cascade).
Payloads == {"OK", "REPORT"}

NoValue == "undefined"

NoError == ErrorBy(0, <<>>)

Fulfilled(value) == [ok |-> TRUE, value |-> value, error |-> NoError]

Rejected(err) == [ok |-> FALSE, value |-> NoValue, error |-> err]

NoResult == [result |-> NoValue, modelName |-> <<>>]

\* return { result, modelName }
Returned(result, modelName) ==
    [kind |-> "return",
     value |-> [result |-> result, modelName |-> modelName],
     error |-> NoError]

\* throw err
Thrown(err) ==
    [kind |-> "throw", value |-> NoResult, error |-> err]

\* The candidate lists: the leading models of the configured lists.
CandidateLists ==
    { SubSeq(list, 1, n) :
        list \in {VISION_MODELS, CHAT_MODELS},
        n \in { k \in 1..MaxModels : k <= Len(VISION_MODELS) } }

(* ---- strings of the routes ---- *)

\* the needle 'GEMINI_API_KEY'
SGeminiApiKey ==
    <<"G", "E", "M", "I", "N", "I", "_", "A", "P", "I", "_", "K", "E", "Y">>

\* the needle 'not configured'
SNotConfigured ==
    <<"n", "o", "t", " ", "c", "o", "n", "f", "i", "g", "u", "r", "e", "d">>

\* the needle 'All Gemini models quota-exceeded'
SAllGeminiModels ==
    <<"A", "l", "l", " ", "G", "e", "m", "i", "n", "i", " ", "m", "o", "d",
      "e", "l", "s", " ", "q", "u", "o", "t", "a", "-", "e", "x", "c", "e",
      "e", "d", "e", "d">>

\* the needle 'all models'
SAllModels ==
    <<"a", "l", "l", " ", "m", "o", "d", "e", "l", "s">>

\* the needle 'API_KEY_INVALID'
SApiKeyInvalid ==
    <<"A", "P", "I", "_", "K", "E", "Y", "_", "I", "N", "V", "A", "L", "I",
      "D">>

\* the needle 'invalid'
SInvalid ==
    <<"i", "n", "v", "a", "l", "i", "d">>

\* the message of the error analyzeCTScan throws without an API key
VisionNotConfiguredMessage ==
    <<"G", "E", "M", "I", "N", "I", "_", "A", "P", "I", "_", "K", "E", "Y",
      " ", "i", "s", " ", "n", "o", "t", " ", "c", "o", "n", "f", "i", "g",
      "u", "r", "e", "d", ".", " ", "P", "l", "e", "a", "s", "e", " ", "a",
      "d", "d", " ", "y", "o", "u", "r", " ", "A", "P", "I", " ", "k", "e",
      "y", " ", "t", "o", " ", "b", "a", "c", "k", "e", "n", "d", "/", ".",
      "e", "n", "v", ".", " ", "G", "e", "t", " ", "a", " ", "F", "R", "E",
      "E", " ", "k", "e", "y", " ", "a", "t", " ", "h", "t", "t", "p", "s",
      ":", "/", "/", "a", "i", "s", "t", "u", "d", "i", "o", ".", "g", "o",
      "o", "g", "l", "e", ".", "c", "o", "m", "/", "a", "p", "p", "/", "a",
      "p", "i", "k", "e", "y">>

\* the message of the error getChatbotResponse throws without an API key
ChatNotConfiguredMessage ==
    <<"G", "E", "M", "I", "N", "I", "_", "A", "P", "I", "_", "K", "E", "Y",
      " ", "n", "o", "t", " ", "c", "o", "n", "f", "i", "g", "u", "r", "e",
      "d">>

\* the message of the error response.text() throws for a blocked response
MsgResponseBlocked ==
    <<"T", "e", "x", "t", " ", "n", "o", "t", " ", "a", "v", "a", "i", "l",
      "a", "b", "l", "e", ".", " ", "R", "e", "s", "p", "o", "n", "s", "e",
      " ", "w", "a", "s", " ", "b", "l", "o", "c", "k", "e", "d", " ", "d",
      "u", "e", " ", "t", "o", " ", "S", "A", "F", "E", "T", "Y">>

\* userMessage, status 500
UserMessageDefault ==
    <<"A", "n", "a", "l", "y", "s", "i", "s", " ", "f", "a", "i", "l", "e",
      "d", ".", " ", "P", "l", "e", "a", "s", "e", " ", "t", "r", "y", " ",
      "a", "g", "a", "i", "n", ".">>

\* userMessage, status 503
UserMessageNotConfigured ==
    <<"A", "I", " ", "s", "e", "r", "v", "i", "c", "e", " ", "n", "o", "t",
      " ", "c", "o", "n", "f", "i", "g", "u", "r", "e", "d", ".", " ", "P",
      "l", "e", "a", "s", "e", " ", "a", "d", "d", " ", "y", "o", "u", "r",
      " ", "G", "E", "M", "I", "N", "I", "_", "A", "P", "I", "_", "K", "E",
      "Y", " ", "t", "o", " ", "b", "a", "c", "k", "e", "n", "d", "/", ".",
      "e", "n", "v", ".", " ", "G", "e", "t", " ", "a", " ", "F", "R", "E",
      "E", " ", "k", "e", "y", " ", "a", "t", " ", "h", "t", "t", "p", "s",
      ":", "/", "/", "a", "i", "s", "t", "u", "d", "i", "o", ".", "g", "o",
      "o", "g", "l", "e", ".", "c", "o", "m", "/", "a", "p", "p", "/", "a",
      "p", "i", "k", "e", "y">>

\* userMessage, status 429, all models exhausted
UserMessageAllModels ==
    <<"R", "a", "t", "e", " ", "l", "i", "m", "i", "t", " ", "r", "e", "a",
      "c", "h", "e", "d", " ", "o", "n", " ", "a", "l", "l", " ", "A", "I",
      " ", "m", "o", "d", "e", "l", "s", ".", " ", "P", "l", "e", "a", "s",
      "e", " ", "w", "a", "i", "t", " ", "6", "0", " ", "s", "e", "c", "o",
      "n", "d", "s", " ", "a", "n", "d", " ", "t", "r", "y", " ", "a", "g",
      "a", "i", "n", ".", " ", "(", "F", "r", "e", "e", " ", "t", "i", "e",
      "r", ":", " ", "1", "5", " ", "r", "e", "q", "u", "e", "s", "t", "s",
      "/", "m", "i", "n", "u", "t", "e", ")">>

\* userMessage, status 429, one quota error
UserMessageRateLimit ==
    <<"A", "I", " ", "r", "a", "t", "e", " ", "l", "i", "m", "i", "t", " ",
      "r", "e", "a", "c", "h", "e", "d", ".", " ", "P", "l", "e", "a", "s",
      "e", " ", "w", "a", "i", "t", " ", "6", "0", " ", "s", "e", "c", "o",
      "n", "d", "s", " ", "a", "n", "d", " ", "t", "r", "y", " ", "a", "g",
      "a", "i", "n", ".", " ", "(", "F", "r", "e", "e", " ", "t", "i", "e",
      "r", ":", " ", "1", "5", " ", "r", "e", "q", "u", "e", "s", "t", "s",
      "/", "m", "i", "n", "u", "t", "e", ")">>

\* userMessage, status 401
UserMessageInvalidKey ==
    <<"I", "n", "v", "a", "l", "i", "d", " ", "G", "e", "m", "i", "n", "i",
      " ", "A", "P", "I", " ", "k", "e", "y", ".", " ", "P", "l", "e", "a",
      "s", "e", " ", "c", "h", "e", "c", "k", " ", "G", "E", "M", "I", "N",
      "I", "_", "A", "P", "I", "_", "K", "E", "Y", " ", "i", "n", " ", "b",
      "a", "c", "k", "e", "n", "d", "/", ".", "e", "n", "v", ".", " ", "G",
      "e", "t", " ", "a", " ", "v", "a", "l", "i", "d", " ", "k", "e", "y",
      " ", "a", "t", " ", "h", "t", "t", "p", "s", ":", "/", "/", "a", "i",
      "s", "t", "u", "d", "i", "o", ".", "g", "o", "o", "g", "l", "e", ".",
      "c", "o", "m", "/", "a", "p", "p", "/", "a", "p", "i", "k", "e", "y">>

\* message of the 400 response without a file
UserMessageNoFile ==
    <<"P", "l", "e", "a", "s", "e", " ", "u", "p", "l", "o", "a", "d", " ",
      "a", " ", "C", "T", " ", "s", "c", "a", "n", " ", "i", "m", "a", "g",
      "e", " ", "(", "P", "N", "G", ",", " ", "J", "P", "G", ",", " ", "o",
      "r", " ", "J", "P", "E", "G", ")">>

\* a chat message: 'Hello'
ChatHello ==
    <<"H", "e", "l", "l", "o">>

\* a chat message of white space only
ChatBlank ==
    <<" ", "\t", "\n", " ">>

\* the characters String.prototype.trim removes
WhiteSpace ==
    <<" ", "\t", "\n", "\r">>

\* const knowledgeBase: the keywords of each entry and (by name) its response.
knowledgeBase ==
    <<
      [response |-> "KB_LUNG_NODULE",
       keywords |-> <<
         <<"w", "h", "a", "t", " ", "i", "s">>,
         <<"l", "u", "n", "g", " ", "n", "o", "d", "u", "l", "e">>,
         <<"p", "u", "l", "m", "o", "n", "a", "r", "y", " ", "n", "o", "d", "u", "l", "e">> >>],
      [response |-> "KB_BENIGN",
       keywords |-> <<
         <<"b", "e", "n", "i", "g", "n">>,
         <<"n", "o", "n", "-", "c", "a", "n", "c", "e", "r", "o", "u", "s">>,
         <<"n", "o", "t", " ", "c", "a", "n", "c", "e", "r">> >>],
      [response |-> "KB_MALIGNANT",
       keywords |-> <<
         <<"m", "a", "l", "i", "g", "n", "a", "n", "t">>,
         <<"c", "a", "n", "c", "e", "r", "o", "u", "s">>,
         <<"c", "a", "n", "c", "e", "r">>,
         <<"l", "u", "n", "g", " ", "c", "a", "n", "c", "e", "r">> >>],
      [response |-> "KB_CAUSES",
       keywords |-> <<
         <<"c", "a", "u", "s", "e", "s">>,
         <<"w", "h", "y">>,
         <<"r", "i", "s", "k", " ", "f", "a", "c", "t", "o", "r", "s">>,
         <<"s", "m", "o", "k", "i", "n", "g">> >>],
      [response |-> "KB_SYMPTOMS",
       keywords |-> <<
         <<"s", "y", "m", "p", "t", "o", "m", "s">>,
         <<"s", "i", "g", "n", "s">>,
         <<"f", "e", "e", "l">>,
         <<"p", "a", "i", "n">> >>],
      [response |-> "KB_TREATMENT",
       keywords |-> <<
         <<"t", "r", "e", "a", "t", "m", "e", "n", "t">>,
         <<"c", "u", "r", "e">>,
         <<"t", "h", "e", "r", "a", "p", "y">>,
         <<"s", "u", "r", "g", "e", "r", "y">> >>],
      [response |-> "KB_CT_SCAN",
       keywords |-> <<
         <<"c", "t", " ", "s", "c", "a", "n">>,
         <<"x", "-", "r", "a", "y">>,
         <<"i", "m", "a", "g", "i", "n", "g">> >>],
      [response |-> "KB_HELLO",
       keywords |-> <<
         <<"h", "e", "l", "l", "o">>,
         <<"h", "i">>,
         <<"h", "e", "y">> >>] >>

\* 'No message provided'
SNoMessageProvided ==
    <<"N", "o", " ", "m", "e", "s", "s", "a", "g", "e", " ", "p", "r", "o",
      "v", "i", "d", "e", "d">>

\* 'Message too long'
SMessageTooLong ==
    <<"M", "e", "s", "s", "a", "g", "e", " ", "t", "o", "o", " ", "l", "o",
      "n", "g">>

(* ---- the server around the cascade: data ---- *)

\* if (message.length > 1000)
MaxMessageLength == 1000

\* The requests the server is followed through: two, so that they can overlap.
RequestIds == {1, 2}

ApiKeyPlaceholder == "YOUR_GEMINI_API_KEY_HERE"

\* Values of process.env.GEMINI_API_KEY: unset, empty, the placeholder, a key.
KeyValues == {NoValue, "", ApiKeyPlaceholder, "AIza-key"}

\* Only an unset key counts as missing: the placeholder is taken for a key.
KeyMissingUnsetOnly(key) == key = NoValue

\* !process.env.GEMINI_API_KEY || process.env.GEMINI_API_KEY === '...HERE'
KeyMissing(key) ==
    (key = NoValue \/ key = "") \/ key = ApiKeyPlaceholder

\* process.env.GEMINI_API_KEY && process.env.GEMINI_API_KEY !== '...HERE'
RouteHasKey(key) ==
    (key # NoValue /\ key # "") /\ key # ApiKeyPlaceholder

\* The leading models of a configured list that are explored.
ConfiguredModels(list) ==
    SubSeq(list, 1, IF MaxModels < Len(list) THEN MaxModels ELSE Len(list))

\* The two arrays as the module defines them.
ModuleConfig ==
    [vision |-> ConfiguredModels(VISION_MODELS),
     chat |-> ConfiguredModels(CHAT_MODELS)]

\* req.file is undefined
NoFile == <<>>

\* `ct-scan-${uniqueSuffix}${ext}`: one name per request.
FileOf(r) == <<"ct-scan", r>>

\* req.body without a message
NoBody == [hasMessage |-> FALSE, message |-> <<>>]

Body(message) == [hasMessage |-> TRUE, message |-> message]

\* Nothing was sent yet.
NoResponse ==
    [status |-> 0, success |-> FALSE, message |-> <<>>,
     reply |-> NoValue, engine |-> NoValue]

\* What analyzeCTScan / getChatbotResponse returned: the text of the reply
\* and, for a prediction, the model that produced it.
NoReturn == [text |-> NoValue, modelVersion |-> <<>>]

\* A request: its route and where its handler stands; the stored upload and
\* the body; how the function it awaited ended (outcome, value, error);
\* whether the rule-based responder was asked; whether fs.unlinkSync threw
\* in the catch block; and the response sent.
IdleRequest ==
    [route |-> "none", phase |-> "idle", file |-> NoFile, body |-> NoBody,
     outcome |-> "none", value |-> NoReturn, error |-> NoError,
     ruleBased |-> FALSE, unlinkFailed |-> FALSE, res |-> NoResponse]

IdleCascade ==
    [list |-> "none", pc |-> "idle", idx |-> 0, errors |-> <<>>,
     calls |-> <<>>, settled |-> <<>>, completions |-> <<>>]

\* const errors = []; the loop starts on the array named list.
CascadeStart(list) ==
    [list |-> list, pc |-> "loop", idx |-> 1, errors |-> <<>>,
     calls |-> <<>>, settled |-> <<>>, completions |-> <<>>]

\* s.trim()
RECURSIVE TrimStart(_)
TrimStart(s) ==
    IF Len(s) > 0 /\ (\E i \in 1..Len(WhiteSpace) : WhiteSpace[i] = s[1])
    THEN TrimStart(Tail(s))
    ELSE s

RECURSIVE TrimEnd(_)
TrimEnd(s) ==
    IF Len(s) > 0 /\ (\E i \in 1..Len(WhiteSpace) : WhiteSpace[i] = s[Len(s)])
    THEN TrimEnd(SubSeq(s, 1, Len(s) - 1))
    ELSE s

Trim(s) == TrimEnd(TrimStart(s))

\* entry.keywords.some(k => lower.includes(k.toLowerCase()))
EntryMatches(entry, lower) ==
    \E k \in 1..Len(entry.keywords) :
        Includes(lower, ToLowerCase(entry.keywords[k]))

\* The response of the first entry with a keyword in the message, else the
\* default fallback response.
getRuleBasedResponse(message) ==
    LET lower == Trim(ToLowerCase(message))
        hits == { i \in 1..Len(knowledgeBase) :
                    EntryMatches(knowledgeBase[i], lower) }
    IN  IF hits = {} THEN "KB_DEFAULT_FALLBACK"
        ELSE knowledgeBase[CHOOSE i \in hits : \A j \in hits : i <= j].response

\* The quota branch is tested before the all-models branch.
ErrorResponseQuotaFirst(error) ==
    LET m == error.message
    IN  IF Includes(m, SGeminiApiKey) \/ Includes(m, SNotConfigured)
        THEN [statusCode |-> 503, userMessage |-> UserMessageNotConfigured]
        ELSE IF \/ Includes(m, S429)
                \/ Includes(m, SQuota)
                \/ Includes(m, STooMany)
        THEN [statusCode |-> 429, userMessage |-> UserMessageRateLimit]
        ELSE IF Includes(m, SAllGeminiModels) \/ Includes(m, SAllModels)
        THEN [statusCode |-> 429, userMessage |-> UserMessageAllModels]
        ELSE IF Includes(m, SApiKeyInvalid) \/ Includes(m, SInvalid)
        THEN [statusCode |-> 401, userMessage |-> UserMessageInvalidKey]
        ELSE [statusCode |-> 500, userMessage |-> UserMessageDefault]

\* The status and the user message POST /api/predict answers an error with.
ErrorResponse(error) ==
    LET m == error.message
    IN  IF Includes(m, SGeminiApiKey) \/ Includes(m, SNotConfigured)
        THEN [statusCode |-> 503, userMessage |-> UserMessageNotConfigured]
        ELSE IF Includes(m, SAllGeminiModels) \/ Includes(m, SAllModels)
        THEN [statusCode |-> 429, userMessage |-> UserMessageAllModels]
        ELSE IF \/ Includes(m, S429)
                \/ Includes(m, SQuota)
                \/ Includes(m, STooMany)
        THEN [statusCode |-> 429, userMessage |-> UserMessageRateLimit]
        ELSE IF Includes(m, SApiKeyInvalid) \/ Includes(m, SInvalid)
        THEN [statusCode |-> 401, userMessage |-> UserMessageInvalidKey]
        ELSE [statusCode |-> 500, userMessage |-> UserMessageDefault]

\* The messages POST /api/chatbot is sent: none, empty, blank, a greeting,
\* one of exactly the longest length allowed and one a character longer.
ChatBodies ==
    { NoBody, Body(<<>>), Body(ChatBlank), Body(ChatHello),
      Body([i \in 1..MaxMessageLength |-> "a"]),
      Body([i \in 1..(MaxMessageLength + 1) |-> "a"]) }

\* Results of the SDK call: a reply with text, and a reply that was blocked,
\* for which response.text() throws.
SdkResults == {"OK", "BLOCKED"}

\* result.response.text() throws for this result.
TextThrows(result) == result = "BLOCKED"

\* The error response.text() throws.
BlockedError == ErrorBy(0, MsgResponseBlocked)

\* The server before any request.
ServerIdle ==
    /\ config = ModuleConfig
    /\ reqs = [r \in RequestIds |-> IdleRequest]
    /\ casc = [r \in RequestIds |-> IdleCascade]
    /\ uploads = {}

\* an error message the SDK call can fail with: 'fetch failed'
MsgFetchFailed ==
    <<"f", "e", "t", "c", "h", " ", "f", "a", "i", "l", "e", "d">>

(* ---- strings of the frontend ---- *)

\* the needle 'rate limit'
SRateLimit ==
    <<"r", "a", "t", "e", " ", "l", "i", "m", "i", "t">>

\* the needle 'wait 60'
SWait60 ==
    <<"w", "a", "i", "t", " ", "6", "0">>

\* the needle 'api key'
SApiKeyLower ==
    <<"a", "p", "i", " ", "k", "e", "y">>

\* the needle 'gemini_api_key'
SGeminiApiKeyLower ==
    <<"g", "e", "m", "i", "n", "i", "_", "a", "p", "i", "_", "k", "e", "y">>

\* the needle 'key'
SKey ==
    <<"k", "e", "y">>

\* error of the error response of POST /predict
SAIAnalysisFailed ==
    <<"A", "I", " ", "A", "n", "a", "l", "y", "s", "i", "s", " ", "F", "a",
      "i", "l", "e", "d">>

\* 'Server error'
SServerError ==
    <<"S", "e", "r", "v", "e", "r", " ", "e", "r", "r", "o", "r">>

\* the message for a request without a response
CannotConnectMessage ==
    <<"C", "a", "n", "n", "o", "t", " ", "c", "o", "n", "n", "e", "c", "t",
      " ", "t", "o", " ", "s", "e", "r", "v", "e", "r", ".", " ", "P", "l",
      "e", "a", "s", "e", " ", "c", "h", "e", "c", "k", " ", "i", "f", " ",
      "b", "a", "c", "k", "e", "n", "d", " ", "i", "s", " ", "r", "u", "n",
      "n", "i", "n", "g", ".">>

(* ---- the frontend: data ---- *)

\* Most uploadCTScan calls followed.
MaxUploads == 2

\* Most chat messages the user sends.
MaxSends == 6

\* .slice(-10)
HistoryLimit == 10

\* The pages Navbar and LandingPage navigate to.
NavPages == {"home", "scan"}

\* useState(null) of result; a response is set with the number of its upload.
NullResult == [isNull |-> TRUE, upload |-> 0]

\* response.data of the successful upload number id.
ResponseOf(id) == [isNull |-> FALSE, upload |-> id]

\* useState(null) of error
NullError == [isNull |-> TRUE, message |-> <<>>]

\* setError(err.message)
ErrorMessage(message) == [isNull |-> FALSE, message |-> message]

\* The errors analyzeCTScan can throw, one for each branch of the status
\* mapping of POST /api/predict.
FailureCauses ==
    { VisionNotConfiguredMessage, MsgNestedAggregate, Msg429TooManyRequests,
      MsgInvalidRequestSchema, MsgFetchFailed }

\* The error responses of POST /api/predict: status and body.
PredictFailures ==
    { [status |-> ErrorResponse(ErrorBy(0, m)).statusCode,
       error |-> SAIAnalysisFailed,
       message |-> ErrorResponse(ErrorBy(0, m)).userMessage] :
        m \in FailureCauses }

\* A request that got no response: error.response is undefined.
NoResponseFailure == [status |-> 0, error |-> <<>>, message |-> <<>>]

\* The ways an upload fails.
UploadFailures == PredictFailures \cup {NoResponseFailure}

\* The message of the Error handleAPIError builds.
handleAPIError(failure) ==
    IF failure.status # 0
    THEN IF Len(failure.message) > 0 THEN failure.message
         ELSE IF Len(failure.error) > 0 THEN failure.error
         ELSE SServerError
    ELSE CannotConnectMessage

\* The card ErrorCard shows for the error message msg.
classifyError(msg) ==
    IF msg.isNull \/ Len(msg.message) = 0 THEN "generic"
    ELSE LET m == ToLowerCase(msg.message)
         IN  IF \/ Includes(m, SRateLimit)
                \/ Includes(m, SQuota)
                \/ Includes(m, SWait60)
                \/ Includes(m, S429)
             THEN "rateLimit"
             ELSE IF \/ Includes(m, SNotConfigured)
                     \/ Includes(m, SApiKeyLower)
                     \/ Includes(m, SGeminiApiKeyLower)
             THEN "noApiKey"
             ELSE IF Includes(m, SInvalid) /\ Includes(m, SKey)
             THEN "badApiKey"
             ELSE "generic"

\* An uploadCTScan call: not settled, settled with a response, or settled
\* with an error; and the page that was shown when it settled.
Pending ==
    [state |-> "pending", failure |-> NoResponseFailure, page |-> "none"]

Resolved(page) ==
    [state |-> "resolved", failure |-> NoResponseFailure, page |-> page]

RejectedWith(failure, page) ==
    [state |-> "rejected", failure |-> failure, page |-> page]

\* The uploadCTScan calls in flight.
PendingUploads == { id \in 1..Len(sent) : sent[id].state = "pending" }

\* The first message of the conversation, by the bot.
Greeting == [type |-> "bot", text |-> "greeting", isError |-> FALSE]

\* What the user types, trimmed.
Questions == {"q1", "q2"}

\* No POST /chatbot request is in flight.
NoRequest == [pending |-> FALSE, message |-> "", history |-> <<>>]

\* getChatbotResponse was not called yet.
NoConversation == [received |-> <<>>, forwarded |-> <<>>]

\* array.filter(keep), for keep given as the set of elements kept.
RECURSIVE Filter(_, _)
Filter(array, kept) ==
    IF Len(array) = 0 THEN <<>>
    ELSE IF array[1] \in kept
    THEN <<array[1]>> \o Filter(Tail(array), kept)
    ELSE Filter(Tail(array), kept)

\* The history keeps the first n elements.
SliceFirst(array, n) ==
    IF Len(array) <= n THEN array ELSE SubSeq(array, 1, n)

\* array.slice(-n)
SliceLast(array, n) ==
    IF Len(array) <= n THEN array
    ELSE SubSeq(array, Len(array) - n + 1, Len(array))

\* geminiHistory of sendChatMessage: the user and bot messages, the last
\* ten of them, as { role, text }.
geminiHistory(history) ==
    LET typed == Filter(history,
                        { m \in { history[i] : i \in 1..Len(history) } :
                            m.type = "user" \/ m.type = "bot" })
        last == SliceLast(typed, HistoryLimit)
    IN  [i \in 1..Len(last) |->
            [role |-> IF last[i].type = "user" THEN "user" ELSE "model",
             text |-> last[i].text]]

\* conversationHistory.filter(m => m.role === 'user' || m.role === 'model')
ForwardedTurns(conversationHistory) ==
    Filter(conversationHistory,
           { m \in { conversationHistory[i] :
                       i \in 1..Len(conversationHistory) } :
               m.role = "user" \/ m.role = "model" })

\* Histories sent to POST /api/chatbot by a client other than the frontend.
OtherHistories ==
    { <<[role |-> "system", text |-> "s1"], [role |-> "user", text |-> "q1"],
        [role |-> "model", text |-> "a1"]>>,
      <<[role |-> "user", text |-> "q1"], [role |-> "assistant", text |-> "a1"],
        [role |-> "user", text |-> "q2"]>> }

\* The frontend as it is mounted.
ClientIdle ==
    /\ currentPage = "home"
    /\ appResult = NullResult
    /\ isLoading = FALSE
    /\ appError = NullError
    /\ backendStatus = "checking"
    /\ selectedFile = FALSE
    /\ sent = <<>>
    /\ messages = <<Greeting>>
    /\ isTyping = FALSE
    /\ chatRequest = NoRequest
    /\ conversation = NoConversation

(* ---- the state machine ---- *)

\* No tryModels invocation is being looked at on its own.
CascadeIdle ==
    /\ models = <<>>
    /\ pc = "idle"
    /\ idx = 0
    /\ errors = <<>>
    /\ calls = <<>>
    /\ settled = <<>>
    /\ completions = <<>>

Init ==
    /\ CascadeIdle
    /\ env = "AIza-key"
    /\ ServerIdle
    /\ ClientIdle

\* tryModels(models, fn) is called: const errors = []; the loop starts.
tryModels(ms) ==
    /\ pc = "idle"
    /\ models' = ms
    /\ errors' = <<>>
    /\ idx' = 1
    /\ pc' = "loop"
    /\ UNCHANGED <<calls, settled, completions>>
    /\ UNCHANGED requestVars
    /\ UNCHANGED clientVars

\* The loop calls fn and goes on to the next model without awaiting the call.
AttemptWithoutAwait ==
    /\ pc = "loop"
    /\ idx <= Len(models)
    /\ calls' = Append(calls, models[idx])
    /\ idx' = idx + 1
    /\ UNCHANGED <<models, pc, errors, settled, completions>>
    /\ UNCHANGED requestVars
    /\ UNCHANGED clientVars

\* The loop takes the next model name and awaits fn(model, modelName).
Attempt ==
    /\ pc = "loop"
    /\ idx <= Len(models)
    /\ calls' = Append(calls, models[idx])
    /\ pc' = "await"
    /\ UNCHANGED <<models, idx, errors, settled, completions>>
    /\ UNCHANGED requestVars
    /\ UNCHANGED clientVars

\* fn resolves but the loop does not return: it goes on to the next model.
FnFulfilsAndGoesOn(value) ==
    /\ pc = "await"
    /\ settled' = Append(settled, Fulfilled(value))
    /\ idx' = idx + 1
    /\ pc' = "loop"
    /\ UNCHANGED <<models, errors, calls, completions>>
    /\ UNCHANGED requestVars
    /\ UNCHANGED clientVars

\* fn resolves: return { result, modelName }.
FnFulfils(value) ==
    /\ pc = "await"
    /\ settled' = Append(settled, Fulfilled(value))
    /\ completions' = Append(completions, Returned(value, models[idx]))
    /\ pc' = "done"
    /\ UNCHANGED <<models, idx, errors, calls>>
    /\ UNCHANGED requestVars
    /\ UNCHANGED clientVars

\* Skipping retries the same model.
AfterSkipRetry(i) == i

\* Skipping passes over the next model.
AfterSkipTwo(i) == i + 2

\* The position the loop continues from after skipping the model at i.
AfterSkip(i) == i + 1

\* catch (err), quota or 404: push the entry and continue with the next model.
CatchSkip(err) ==
    /\ errors' = Append(errors, ErrorEntry(models[idx], err))
    /\ idx' = AfterSkip(idx)
    /\ pc' = "loop"
    /\ UNCHANGED completions

\* The catch block throws a copy, new Error(err.message), in place of err.
CatchRethrowCopy(err) ==
    /\ completions' = Append(completions, Thrown(ErrorBy(0, err.message)))
    /\ pc' = "done"
    /\ UNCHANGED <<errors, idx>>

\* catch (err), anything else: throw err.
CatchRethrow(err) ==
    /\ completions' = Append(completions, Thrown(err))
    /\ pc' = "done"
    /\ UNCHANGED <<errors, idx>>

\* fn rejects with an error carrying message: the catch block runs.
FnRejects(message) ==
    /\ pc = "await"
    /\ LET err == ErrorBy(Len(calls), message)
       IN  /\ settled' = Append(settled, Rejected(err))
           /\ IF isQuotaError(err) \/ isNotFoundError(err)
              THEN CatchSkip(err)
              ELSE CatchRethrow(err)
    /\ UNCHANGED <<models, calls>>
    /\ UNCHANGED requestVars
    /\ UNCHANGED clientVars

\* The loop ran out of models and the last caught error is thrown as it is.
ExhaustedThrowsLast ==
    /\ pc = "loop"
    /\ idx > Len(models)
    /\ completions' =
         Append(completions, Thrown(settled[Len(settled)].error))
    /\ pc' = "done"
    /\ UNCHANGED <<models, idx, errors, calls, settled>>
    /\ UNCHANGED requestVars
    /\ UNCHANGED clientVars

\* The loop ran out of models and starts over with the first model.
ExhaustedStartsOver ==
    /\ pc = "loop"
    /\ idx > Len(models)
    /\ idx' = 1
    /\ UNCHANGED <<models, pc, errors, calls, settled, completions>>
    /\ UNCHANGED requestVars
    /\ UNCHANGED clientVars

\* The loop ran out of models and the function ends without a throw.
ExhaustedFallsThrough ==
    /\ pc = "loop"
    /\ idx > Len(models)
    /\ pc' = "done"
    /\ UNCHANGED <<models, idx, errors, calls, settled, completions>>
    /\ UNCHANGED requestVars
    /\ UNCHANGED clientVars

\* The loop ran out of models: throw the aggregate error.
Exhausted ==
    /\ pc = "loop"
    /\ idx > Len(models)
    /\ completions' = Append(completions, Thrown(AggregateError(errors)))
    /\ pc' = "done"
    /\ UNCHANGED <<models, idx, errors, calls, settled>>
    /\ UNCHANGED requestVars
    /\ UNCHANGED clientVars

Next ==
    \/ \E ms \in CandidateLists : tryModels(ms)
    \/ Attempt
    \/ \E value \in Payloads : FnFulfils(value)
    \/ \E message \in Messages : FnRejects(message)
    \/ Exhausted

Spec == Init /\ [][Next]_vars

\* The pending fn invocation settles, one way or the other.
FnSettles ==
    \/ \E value \in Payloads : FnFulfils(value)
    \/ \E message \in Messages : FnRejects(message)

\* The cascade where every fn invocation eventually settles and the event loop
\* runs every continuation that is ready.
SpecFair ==
    /\ Spec
    /\ WF_vars(Attempt)
    /\ WF_vars(FnSettles)
    /\ WF_vars(Exhausted)

TypeOK ==
    /\ pc \in {"idle", "loop", "await", "done"}
    /\ idx \in 0..(Len(models) + 1)
    /\ Len(completions) <= 1

(* ---- the server around the cascade: requests ---- *)

\* The array a request's cascade iterates: the module-level array, read as
\* the loop reaches each element.
ListOf(r) == config[casc[r].list]

\* POST /api/predict arrives: multer stores the image, if one was sent,
\* before the handler runs.
PredictArrives(r, hasFile) ==
    /\ reqs[r].phase = "idle"
    /\ reqs' = [reqs EXCEPT ![r].route = "predict",
                            ![r].phase = "handler",
                            ![r].file = IF hasFile THEN FileOf(r) ELSE NoFile]
    /\ uploads' = IF hasFile THEN uploads \cup {FileOf(r)} ELSE uploads
    /\ UNCHANGED <<env, config, casc>>
    /\ UNCHANGED cascadeVars
    /\ UNCHANGED clientVars

\* The handler of POST /api/predict up to its await.
PredictHandler(r) ==
    /\ reqs[r].route = "predict"
    /\ reqs[r].phase = "handler"
    /\ reqs' =
         IF reqs[r].file = NoFile
         THEN [reqs EXCEPT ![r].phase = "done",
                           ![r].res = [NoResponse EXCEPT
                                         !.status = 400,
                                         !.message = UserMessageNoFile]]
         ELSE [reqs EXCEPT ![r].phase = "call"]
    /\ UNCHANGED <<env, config, casc, uploads>>
    /\ UNCHANGED cascadeVars
    /\ UNCHANGED clientVars

\* POST /api/chatbot arrives with a body.
ChatArrives(r, body) ==
    /\ reqs[r].phase = "idle"
    /\ reqs' = [reqs EXCEPT ![r].route = "chatbot",
                            ![r].phase = "handler",
                            ![r].body = body]
    /\ UNCHANGED <<env, config, casc, uploads>>
    /\ UNCHANGED cascadeVars
    /\ UNCHANGED clientVars

\* The replies of POST /api/chatbot to a message it does not accept.
BadRequest(error, reply) ==
    [NoResponse EXCEPT !.status = 400, !.message = error, !.reply = reply]

\* The reply of POST /api/chatbot by the rule-based responder.
RuleBasedReply(message) ==
    [NoResponse EXCEPT !.status = 200, !.success = TRUE,
                       !.reply = getRuleBasedResponse(message),
                       !.engine = "rule-based"]

\* !message || !message.trim()
NoMessage(body) ==
    \/ ~body.hasMessage
    \/ Len(body.message) = 0
    \/ Len(Trim(body.message)) = 0

\* The length test lets a message of one character too many through.
TooLongOffByOne(body) == Len(body.message) > MaxMessageLength + 1

\* message.length > 1000
TooLong(body) == Len(body.message) > MaxMessageLength

\* The handler answers the message itself, with 400.
RejectsMessage(body) == NoMessage(body) \/ TooLong(body)

\* The handler of POST /api/chatbot up to its await.
ChatHandler(r) ==
    /\ reqs[r].route = "chatbot"
    /\ reqs[r].phase = "handler"
    /\ reqs' =
         IF NoMessage(reqs[r].body)
         THEN [reqs EXCEPT
                 ![r].phase = "done",
                 ![r].res = BadRequest(SNoMessageProvided,
                                       "Please send a message.")]
         ELSE IF TooLong(reqs[r].body)
         THEN [reqs EXCEPT
                 ![r].phase = "done",
                 ![r].res = BadRequest(SMessageTooLong,
                                       "Please keep your question under 1000 characters.")]
         ELSE IF RouteHasKey(env)
         THEN [reqs EXCEPT ![r].phase = "call"]
         ELSE [reqs EXCEPT ![r].phase = "done",
                           ![r].ruleBased = TRUE,
                           ![r].res = RuleBasedReply(reqs[r].body.message)]
    /\ UNCHANGED <<env, config, casc, uploads>>
    /\ UNCHANGED cascadeVars
    /\ UNCHANGED clientVars

\* getChatbotResponse is called by some other caller than the route.
DirectCall(r, message) ==
    /\ reqs[r].phase = "idle"
    /\ reqs' = [reqs EXCEPT ![r].route = "direct",
                            ![r].phase = "call",
                            ![r].body = Body(message)]
    /\ UNCHANGED <<env, config, casc, uploads>>
    /\ UNCHANGED cascadeVars
    /\ UNCHANGED clientVars

\* A function of geminiAI.js is entered: it throws the error when the key is
\* not configured and else awaits tryModels on the list.
EnterFunction(r, list, notConfigured) ==
    /\ reqs[r].phase = "call"
    /\ IF KeyMissing(env)
       THEN /\ reqs' = [reqs EXCEPT ![r].phase = "settled",
                                    ![r].outcome = "threw",
                                    ![r].error = ErrorBy(0, notConfigured)]
            /\ UNCHANGED casc
       ELSE /\ reqs' = [reqs EXCEPT ![r].phase = "cascade"]
            /\ casc' = [casc EXCEPT ![r] = CascadeStart(list)]
    /\ UNCHANGED <<env, config, uploads>>
    /\ UNCHANGED cascadeVars
    /\ UNCHANGED clientVars

analyzeCTScan(r) ==
    /\ reqs[r].route = "predict"
    /\ EnterFunction(r, "vision", VisionNotConfiguredMessage)

getChatbotResponse(r) ==
    /\ reqs[r].route \in {"chatbot", "direct"}
    /\ EnterFunction(r, "chat", ChatNotConfiguredMessage)

(* ---- the server around the cascade: tryModels of one request ---- *)

\* The loop of request r takes the next model name and awaits fn.
RequestAttempt(r) ==
    /\ casc[r].pc = "loop"
    /\ casc[r].idx <= Len(ListOf(r))
    /\ casc' = [casc EXCEPT
                  ![r].calls = Append(casc[r].calls, ListOf(r)[casc[r].idx]),
                  ![r].pc = "await"]
    /\ UNCHANGED <<env, config, reqs, uploads>>
    /\ UNCHANGED cascadeVars
    /\ UNCHANGED clientVars

\* fn of request r resolves: return { result, modelName }.
RequestFnFulfils(r, result) ==
    /\ casc[r].pc = "await"
    /\ casc' = [casc EXCEPT
                  ![r].settled = Append(casc[r].settled, Fulfilled(result)),
                  ![r].completions =
                      Append(casc[r].completions,
                             Returned(result, ListOf(r)[casc[r].idx])),
                  ![r].pc = "done"]
    /\ UNCHANGED <<env, config, reqs, uploads>>
    /\ UNCHANGED cascadeVars
    /\ UNCHANGED clientVars

\* All requests push their entries to one array: the entries pushed so far
\* by every request, and this one.
PushShared(r, entry) ==
    LET others == CHOOSE q \in RequestIds : q # r
    IN  casc[others].errors \o casc[r].errors \o <<entry>>

\* errors.push(entry) on the array of request r.
Push(r, entry) == Append(casc[r].errors, entry)

\* fn of request r rejects with an error carrying message: the catch block.
RequestFnRejects(r, message) ==
    /\ casc[r].pc = "await"
    /\ LET err == ErrorBy(Len(casc[r].calls), message)
           modelName == ListOf(r)[casc[r].idx]
       IN  casc' =
             IF isQuotaError(err) \/ isNotFoundError(err)
             THEN [casc EXCEPT
                     ![r].settled = Append(casc[r].settled, Rejected(err)),
                     ![r].errors = Push(r, ErrorEntry(modelName, err)),
                     ![r].idx = AfterSkip(casc[r].idx),
                     ![r].pc = "loop"]
             ELSE [casc EXCEPT
                     ![r].settled = Append(casc[r].settled, Rejected(err)),
                     ![r].completions =
                         Append(casc[r].completions, Thrown(err)),
                     ![r].pc = "done"]
    /\ UNCHANGED <<env, config, reqs, uploads>>
    /\ UNCHANGED cascadeVars
    /\ UNCHANGED clientVars

\* The loop of request r ran out of models: throw the aggregate error.
RequestExhausted(r) ==
    /\ casc[r].pc = "loop"
    /\ casc[r].idx > Len(ListOf(r))
    /\ casc' = [casc EXCEPT
                  ![r].completions =
                      Append(casc[r].completions,
                             Thrown(AggregateError(casc[r].errors))),
                  ![r].pc = "done"]
    /\ UNCHANGED <<env, config, reqs, uploads>>
    /\ UNCHANGED cascadeVars
    /\ UNCHANGED clientVars

(* ---- the server around the cascade: after the await ---- *)

\* The awaited tryModels of request r completed: the function rethrows what
\* it threw, or reads the text of the result, which throws for a blocked one.
FunctionResumes(r) ==
    /\ reqs[r].phase = "cascade"
    /\ casc[r].pc = "done"
    /\ LET completion == casc[r].completions[1]
       IN  reqs' =
             IF completion.kind = "throw"
             THEN [reqs EXCEPT ![r].phase = "settled",
                               ![r].outcome = "threw",
                               ![r].error = completion.error]
             ELSE IF TextThrows(completion.value.result)
             THEN [reqs EXCEPT ![r].phase = "settled",
                               ![r].outcome = "threw",
                               ![r].error = BlockedError]
             ELSE [reqs EXCEPT ![r].phase = "settled",
                               ![r].outcome = "returned",
                               ![r].value =
                                   [text |-> completion.value.result,
                                    modelVersion |->
                                        completion.value.modelName]]
    /\ UNCHANGED <<env, config, casc, uploads>>
    /\ UNCHANGED cascadeVars
    /\ UNCHANGED clientVars

\* analyzeCTScan returned: res.json({ success: true, prediction, ... }).
PredictResponds(r) ==
    /\ reqs[r].route = "predict"
    /\ reqs[r].phase = "settled"
    /\ reqs[r].outcome = "returned"
    /\ reqs' = [reqs EXCEPT
                  ![r].phase = "done",
                  ![r].res = [NoResponse EXCEPT
                                !.status = 200,
                                !.success = TRUE,
                                !.engine = "Google Gemini Vision"]]
    /\ UNCHANGED <<env, config, casc, uploads>>
    /\ UNCHANGED cascadeVars
    /\ UNCHANGED clientVars

\* The catch block keeps the uploaded file.
UnlinkNever(files, file, unlinkOk) == files

\* if (savedFilePath && fs.existsSync(savedFilePath))
\*     try { fs.unlinkSync(savedFilePath); } catch (_) { }
Unlink(files, file, unlinkOk) ==
    IF file \in files /\ unlinkOk THEN files \ {file} ELSE files

\* analyzeCTScan threw: the catch block of POST /api/predict.
PredictCatch(r, unlinkOk) ==
    /\ reqs[r].route = "predict"
    /\ reqs[r].phase = "settled"
    /\ reqs[r].outcome = "threw"
    /\ uploads' = Unlink(uploads, reqs[r].file, unlinkOk)
    /\ LET response == ErrorResponse(reqs[r].error)
       IN  reqs' = [reqs EXCEPT
                      ![r].phase = "done",
                      ![r].unlinkFailed =
                          reqs[r].file \in uploads /\ ~unlinkOk,
                      ![r].res = [NoResponse EXCEPT
                                    !.status = response.statusCode,
                                    !.message = response.userMessage]]
    /\ UNCHANGED <<env, config, casc>>
    /\ UNCHANGED cascadeVars
    /\ UNCHANGED clientVars

\* A failure of getChatbotResponse is answered with 500 and no reply of the
\* rule-based responder.
ChatRespondsNoFallback(r) ==
    /\ reqs[r].route = "chatbot"
    /\ reqs[r].phase = "settled"
    /\ reqs' =
         IF reqs[r].outcome = "returned"
         THEN [reqs EXCEPT
                 ![r].phase = "done",
                 ![r].res = [NoResponse EXCEPT
                               !.status = 200,
                               !.success = TRUE,
                               !.reply = reqs[r].value.text,
                               !.engine = "gemini"]]
         ELSE [reqs EXCEPT
                 ![r].phase = "done",
                 ![r].res = [NoResponse EXCEPT !.status = 500]]
    /\ UNCHANGED <<env, config, casc, uploads>>
    /\ UNCHANGED cascadeVars
    /\ UNCHANGED clientVars

\* getChatbotResponse settled: the reply of POST /api/chatbot.
ChatResponds(r) ==
    /\ reqs[r].route = "chatbot"
    /\ reqs[r].phase = "settled"
    /\ reqs' =
         IF reqs[r].outcome = "returned"
         THEN [reqs EXCEPT
                 ![r].phase = "done",
                 ![r].res = [NoResponse EXCEPT
                               !.status = 200,
                               !.success = TRUE,
                               !.reply = reqs[r].value.text,
                               !.engine = "gemini"]]
         ELSE [reqs EXCEPT
                 ![r].phase = "done",
                 ![r].ruleBased = TRUE,
                 ![r].res = RuleBasedReply(reqs[r].body.message)]
    /\ UNCHANGED <<env, config, casc, uploads>>
    /\ UNCHANGED cascadeVars
    /\ UNCHANGED clientVars

(* ---- the server: specifications ---- *)

\* The server before any request, with the key as the environment has it.
InitServer ==
    /\ CascadeIdle
    /\ env \in KeyValues
    /\ ServerIdle
    /\ ClientIdle

\* The errors the SDK call of the request followed alone fails with: skipped
\* as quota by its '429', skipped as quota without '429', and two fatal ones.
RequestMessages ==
    { Msg429TooManyRequests, MsgResourceExhausted, MsgInvalidRequestSchema,
      MsgFetchFailed }

\* One request, followed alone.
OneRequest == {CHOOSE r \in RequestIds : \A q \in RequestIds : r <= q}

NextRequest ==
    \E r \in OneRequest :
        \/ \E hasFile \in BOOLEAN : PredictArrives(r, hasFile)
        \/ PredictHandler(r)
        \/ \E body \in ChatBodies : ChatArrives(r, body)
        \/ ChatHandler(r)
        \/ DirectCall(r, ChatHello)
        \/ analyzeCTScan(r)
        \/ getChatbotResponse(r)
        \/ RequestAttempt(r)
        \/ \E result \in SdkResults : RequestFnFulfils(r, result)
        \/ \E message \in RequestMessages : RequestFnRejects(r, message)
        \/ RequestExhausted(r)
        \/ FunctionResumes(r)
        \/ PredictResponds(r)
        \/ \E unlinkOk \in BOOLEAN : PredictCatch(r, unlinkOk)
        \/ ChatResponds(r)

\* One request on either route or a direct call, with every input.
SpecRequest == InitServer /\ [][NextRequest]_vars

\* The errors the SDK call of overlapping requests fails with: one skipped,
\* one fatal.
ServerMessages == {Msg429TooManyRequests, MsgInvalidRequestSchema}

NextServer ==
    \E r \in RequestIds :
        \/ \E hasFile \in BOOLEAN : PredictArrives(r, hasFile)
        \/ PredictHandler(r)
        \/ ChatArrives(r, Body(ChatHello))
        \/ ChatHandler(r)
        \/ analyzeCTScan(r)
        \/ getChatbotResponse(r)
        \/ RequestAttempt(r)
        \/ \E result \in SdkResults : RequestFnFulfils(r, result)
        \/ \E message \in ServerMessages : RequestFnRejects(r, message)
        \/ RequestExhausted(r)
        \/ FunctionResumes(r)
        \/ PredictResponds(r)
        \/ \E unlinkOk \in BOOLEAN : PredictCatch(r, unlinkOk)
        \/ ChatResponds(r)

\* Requests on both routes, overlapping at every await.
SpecServer == InitServer /\ [][NextServer]_vars

(* ---- the frontend: App and UploadSection ---- *)

\* checkBackendHealth: the health request of the mount effect settles.
checkBackendHealth(ok) ==
    /\ backendStatus = "checking"
    /\ backendStatus' = IF ok THEN "online" ELSE "offline"
    /\ UNCHANGED <<currentPage, appResult, isLoading, appError, selectedFile,
                   sent, messages, isTyping, chatRequest, conversation>>
    /\ UNCHANGED cascadeVars
    /\ UNCHANGED requestVars

\* UploadSection is rendered on the scan page only: its state is lost when
\* the page is left and kept while the page stays.
SelectedFileOn(page) ==
    IF currentPage = "scan" /\ page = "scan" THEN selectedFile ELSE FALSE

\* Navigating also stops the spinner: setIsLoading(false).
handleNavigateResetsLoading(page) ==
    /\ currentPage' = page
    /\ appResult' = NullResult
    /\ appError' = NullError
    /\ isLoading' = FALSE
    /\ selectedFile' = SelectedFileOn(page)
    /\ UNCHANGED <<backendStatus, sent,
                   messages, isTyping, chatRequest, conversation>>
    /\ UNCHANGED cascadeVars
    /\ UNCHANGED requestVars

\* handleNavigate(page), from Navbar or LandingPage.
handleNavigate(page) ==
    /\ currentPage' = page
    /\ appResult' = NullResult
    /\ appError' = NullError
    /\ selectedFile' = SelectedFileOn(page)
    /\ UNCHANGED <<isLoading, backendStatus, sent,
                   messages, isTyping, chatRequest, conversation>>
    /\ UNCHANGED cascadeVars
    /\ UNCHANGED requestVars

\* handleFileSelect with a file that passes validateFile.
handleFileSelect ==
    /\ currentPage = "scan"
    /\ selectedFile' = TRUE
    /\ UNCHANGED <<currentPage, appResult, isLoading, appError, backendStatus,
                   sent, messages, isTyping, chatRequest, conversation>>
    /\ UNCHANGED cascadeVars
    /\ UNCHANGED requestVars

\* handleClear, from the button on the file card.
handleClear ==
    /\ currentPage = "scan"
    /\ selectedFile
    /\ selectedFile' = FALSE
    /\ UNCHANGED <<currentPage, appResult, isLoading, appError, backendStatus,
                   sent, messages, isTyping, chatRequest, conversation>>
    /\ UNCHANGED cascadeVars
    /\ UNCHANGED requestVars

\* handleUpload up to its await: the spinner, no error, the request.
handleUpload ==
    /\ Len(sent) < MaxUploads
    /\ isLoading' = TRUE
    /\ appError' = NullError
    /\ sent' = Append(sent, Pending)
    /\ UNCHANGED <<currentPage, appResult, backendStatus, selectedFile,
                   messages, isTyping, chatRequest, conversation>>
    /\ UNCHANGED cascadeVars
    /\ UNCHANGED requestVars

\* The Analyze button is not disabled while an upload is loading.
handleAnalyzeWhileLoading ==
    /\ currentPage = "scan"
    /\ selectedFile
    /\ handleUpload

\* A click on the Analyze button, disabled={!selectedFile || isLoading}:
\* handleAnalyze calls onUpload.
handleAnalyze ==
    /\ currentPage = "scan"
    /\ selectedFile
    /\ ~isLoading
    /\ handleUpload

\* The upload succeeded and the page is switched without setResult.
UploadResolvesNoResult(id) ==
    /\ id \in PendingUploads
    /\ sent' = [sent EXCEPT ![id] = Resolved(currentPage)]
    /\ currentPage' = "results"
    /\ isLoading' = FALSE
    /\ selectedFile' = FALSE
    /\ UNCHANGED <<appResult, appError, backendStatus,
                   messages, isTyping, chatRequest, conversation>>
    /\ UNCHANGED cascadeVars
    /\ UNCHANGED requestVars

\* The upload succeeded but the page is switched only from the scan page.
UploadResolvesOnScanOnly(id) ==
    /\ id \in PendingUploads
    /\ sent' = [sent EXCEPT ![id] = Resolved(currentPage)]
    /\ appResult' = ResponseOf(id)
    /\ currentPage' = IF currentPage = "scan" THEN "results" ELSE currentPage
    /\ isLoading' = FALSE
    /\ selectedFile' = FALSE
    /\ UNCHANGED <<appError, backendStatus,
                   messages, isTyping, chatRequest, conversation>>
    /\ UNCHANGED cascadeVars
    /\ UNCHANGED requestVars

\* handleUpload after its await, the upload having succeeded: setResult,
\* setCurrentPage('results'), finally setIsLoading(false).
UploadResolves(id) ==
    /\ id \in PendingUploads
    /\ sent' = [sent EXCEPT ![id] = Resolved(currentPage)]
    /\ appResult' = ResponseOf(id)
    /\ currentPage' = "results"
    /\ isLoading' = FALSE
    /\ selectedFile' = FALSE
    /\ UNCHANGED <<appError, backendStatus,
                   messages, isTyping, chatRequest, conversation>>
    /\ UNCHANGED cascadeVars
    /\ UNCHANGED requestVars

\* handleUpload after its await, uploadCTScan having thrown: setError,
\* finally setIsLoading(false).
UploadRejects(id, failure) ==
    /\ id \in PendingUploads
    /\ sent' = [sent EXCEPT ![id] = RejectedWith(failure, currentPage)]
    /\ appError' = ErrorMessage(handleAPIError(failure))
    /\ isLoading' = FALSE
    /\ UNCHANGED <<currentPage, appResult, backendStatus, selectedFile,
                   messages, isTyping, chatRequest, conversation>>
    /\ UNCHANGED cascadeVars
    /\ UNCHANGED requestVars

NextApp ==
    \/ \E ok \in BOOLEAN : checkBackendHealth(ok)
    \/ \E page \in NavPages : handleNavigate(page)
    \/ handleFileSelect
    \/ handleClear
    \/ handleAnalyze
    \/ \E id \in 1..Len(sent) : UploadResolves(id)
    \/ \E id \in 1..Len(sent), failure \in UploadFailures :
           UploadRejects(id, failure)

\* The frontend with its uploads.
SpecApp == Init /\ [][NextApp]_vars

(* ---- the frontend: Chatbot ---- *)

\* The messages the user has sent.
UserMessages == { i \in 1..Len(messages) : messages[i].type = "user" }

\* handleSendMessage with trimmedMessage = text, up to its await: the
\* message is added to the conversation and sendChatMessage is called with
\* the messages of the render the handler belongs to.
handleSendMessage(text) ==
    /\ ~isTyping
    /\ Cardinality(UserMessages) < MaxSends
    /\ messages' =
         Append(messages, [type |-> "user", text |-> text, isError |-> FALSE])
    /\ isTyping' = TRUE
    /\ chatRequest' =
         [pending |-> TRUE, message |-> text,
          history |-> geminiHistory(messages)]
    /\ UNCHANGED <<currentPage, appResult, isLoading, appError, backendStatus,
                   selectedFile, sent, conversation>>
    /\ UNCHANGED cascadeVars
    /\ UNCHANGED requestVars

\* getChatbotResponse is called with the history of a request, of the
\* frontend or of another client, and gives startChat the turns it keeps.
startChat(conversationHistory) ==
    /\ conversation' =
         [received |-> conversationHistory,
          forwarded |-> ForwardedTurns(conversationHistory)]
    /\ UNCHANGED <<currentPage, appResult, isLoading, appError, backendStatus,
                   selectedFile, sent, messages, isTyping, chatRequest>>
    /\ UNCHANGED cascadeVars
    /\ UNCHANGED requestVars

\* The request of the frontend reaches getChatbotResponse.
ChatRequestForwarded ==
    /\ chatRequest.pending
    /\ conversation.received # chatRequest.history
    /\ startChat(chatRequest.history)

\* The request of another client reaches getChatbotResponse.
OtherRequestForwarded(conversationHistory) ==
    /\ conversation.received # conversationHistory
    /\ startChat(conversationHistory)

\* handleSendMessage after its await, with the response: the reply is
\* added as a bot message.
ChatReplyArrives(reply) ==
    /\ chatRequest.pending
    /\ messages' =
         Append(messages, [type |-> "bot", text |-> reply, isError |-> FALSE])
    /\ isTyping' = FALSE
    /\ chatRequest' = NoRequest
    /\ UNCHANGED <<currentPage, appResult, isLoading, appError, backendStatus,
                   selectedFile, sent, conversation>>
    /\ UNCHANGED cascadeVars
    /\ UNCHANGED requestVars

\* handleSendMessage after its await, sendChatMessage having thrown: an
\* error message is added as a bot message.
ChatRequestFails ==
    /\ chatRequest.pending
    /\ messages' =
         Append(messages, [type |-> "bot", text |-> "sorry", isError |-> TRUE])
    /\ isTyping' = FALSE
    /\ chatRequest' = NoRequest
    /\ UNCHANGED <<currentPage, appResult, isLoading, appError, backendStatus,
                   selectedFile, sent, conversation>>
    /\ UNCHANGED cascadeVars
    /\ UNCHANGED requestVars

NextChat ==
    \/ \E text \in Questions : handleSendMessage(text)
    \/ ChatRequestForwarded
    \/ \E h \in OtherHistories : OtherRequestForwarded(h)
    \/ ChatReplyArrives("a1")
    \/ ChatRequestFails

\* The chat window and the history it sends.
SpecChat == Init /\ [][NextChat]_vars

(* ---- strings the properties use ---- *)

\* 'too many', the lower-case form of the phrase
STooManyLower ==
    <<"t", "o", "o", " ", "m", "a", "n", "y">>

\* the first sentence of the aggregate error
SHeaderSentence ==
    <<"A", "l", "l", " ", "G", "e", "m", "i", "n", "i", " ", "m", "o", "d",
      "e", "l", "s", " ", "q", "u", "o", "t", "a", "-", "e", "x", "c", "e",
      "e", "d", "e", "d", ".">>

(* ---- properties of the cascade ---- *)

\* The fn invocation k was rejected.
RejectedAt(k) == k \in 1..Len(settled) /\ ~settled[k].ok

\* The model of fn invocation k was skipped: its entry was pushed and the
\* loop moved past it.
SkippedAt(k) == RejectedAt(k) /\ k <= Len(errors) /\ k < idx

\* The error of fn invocation k is one the cascade skips on.
SkippableAt(k) ==
    RejectedAt(k)
    /\ (isQuotaError(settled[k].error) \/ isNotFoundError(settled[k].error))

\* The error of fn invocation k is fatal: neither quota nor not-found.
FatalAt(k) == RejectedAt(k) /\ ~SkippableAt(k)

\* C1: fn is attempted on the candidates in list order, each at most once and
\* never twice in a row: the attempted candidates are a prefix of models.
C1_AttemptsArePrefix ==
    /\ Len(calls) <= Len(models)
    /\ \A i \in 1..Len(calls) : calls[i] = models[i]
    /\ \A i, j \in 1..Len(calls) : i # j => calls[i] # calls[j]

\* C1 happens: a cascade ended after attempting all of three candidates.
C1_Witness ==
    pc = "done" /\ Len(models) = 3 /\ calls = models

\* C2: when fn succeeds for a candidate, tryModels returns at once that
\* result paired with that candidate; no later candidate is attempted and the
\* recorded reasons are not part of what is returned.
C2_SuccessReturnsAtOnce ==
    \A k \in 1..Len(settled) :
        settled[k].ok =>
            /\ pc = "done"
            /\ k = Len(settled)
            /\ k = Len(calls)
            /\ Len(completions) = 1
            /\ completions[1].kind = "return"
            /\ completions[1].value =
                 [result |-> settled[k].value, modelName |-> models[k]]

\* C2 happens: '429 Too Many Requests', then 'model not found (404)', then
\* success with 'OK' on the third candidate, which is returned with 'OK'.
C2_Witness ==
    /\ pc = "done"
    /\ Len(settled) = 3
    /\ settled[1].error.message = Msg429TooManyRequests
    /\ settled[2].error.message = MsgModelNotFound404
    /\ settled[3].ok
    /\ Len(errors) = 2
    /\ completions = <<Returned("OK", Gemini25Flash)>>

\* C3: when fn fails with a fatal error, tryModels aborts at once and throws
\* that very error; no later candidate is attempted.
C3_FatalPropagatesUnmodified ==
    \A k \in 1..Len(settled) :
        FatalAt(k) =>
            /\ pc = "done"
            /\ k = Len(settled)
            /\ k = Len(calls)
            /\ Len(completions) = 1
            /\ completions[1].kind = "throw"
            /\ completions[1].error = settled[k].error
            /\ completions[1].error.origin = k

\* C3 happens: of two candidates the first fails 'invalid request schema';
\* the second is never invoked.
C3_Witness ==
    /\ pc = "done"
    /\ Len(models) = 2
    /\ calls = <<models[1]>>
    /\ Len(settled) = 1
    /\ settled[1].error.message = MsgInvalidRequestSchema
    /\ completions[1].error.message = MsgInvalidRequestSchema

\* The reasons an entry of the aggregate error can carry.
Reasons == {SQuotaExceeded, SNotFound}

\* C4: when every one of the N candidates fails with a quota or not-found
\* error, tryModels throws one aggregate error: the fixed header, the N
\* entries '<candidate>: <reason>' in candidate order joined by ' | ', and
\* the fixed rate-limit hint.
C4_AggregateListsAllInOrder ==
    (/\ pc = "done"
     /\ Len(settled) = Len(models)
     /\ \A k \in 1..Len(models) : SkippableAt(k))
    =>
    /\ Len(completions) = 1
    /\ completions[1].kind = "throw"
    /\ completions[1].error.origin = 0
    /\ \E reason \in [1..Len(models) -> Reasons] :
         completions[1].error.message =
             AggregateHeader
             \o Join([k \in 1..Len(models) |->
                        models[k] \o SColonSpace \o reason[k]], SBar)
             \o AggregateHint

\* C4 happens: three candidates, all skipped, some for quota and some for
\* not-found, and the aggregate error is thrown.
C4_Witness ==
    /\ pc = "done"
    /\ Len(models) = 3
    /\ \A k \in 1..3 : SkippableAt(k)
    /\ settled[1].error.message = Msg429TooManyRequests
    /\ settled[2].error.message = MsgModelNotFound404
    /\ Len(completions) = 1
    /\ completions[1].kind = "throw"

\* The thrown error is the aggregate error tryModels constructs.
IsAggregateFailure(c) ==
    c.kind = "throw" /\ c.error.origin = 0

\* The thrown error is the fatal error the last fn invocation raised.
IsFatalFailure(c) ==
    /\ c.kind = "throw"
    /\ c.error.origin > 0
    /\ c.error.origin = Len(settled)
    /\ FatalAt(Len(settled))
    /\ c.error = settled[Len(settled)].error

\* The returned value is the result of the last fn invocation.
IsSuccess(c) ==
    /\ c.kind = "return"
    /\ Len(settled) > 0
    /\ settled[Len(settled)].ok
    /\ c.value.result = settled[Len(settled)].value

\* C5 as stated: every ended invocation delivered exactly one outcome, a
\* success or an aggregate failure.
C5_SuccessOrAggregateOnly ==
    pc = "done" =>
        /\ Len(completions) = 1
        /\ (completions[1].kind = "return") # IsAggregateFailure(completions[1])

\* C5 as amended: every ended invocation delivered exactly one outcome, which
\* is exactly one of a success, an aggregate failure, or the propagated fatal
\* error of the last attempt; nothing is delivered before the end.
C5_ExactlyOneOutcome ==
    /\ pc # "done" => completions = <<>>
    /\ pc = "done" =>
        /\ Len(completions) = 1
        /\ LET c == completions[1]
           IN  \/ IsSuccess(c) /\ ~IsAggregateFailure(c) /\ ~IsFatalFailure(c)
               \/ ~IsSuccess(c) /\ IsAggregateFailure(c) /\ ~IsFatalFailure(c)
               \/ ~IsSuccess(c) /\ ~IsAggregateFailure(c) /\ IsFatalFailure(c)

\* C5 happens: an invocation ended with a fatal error after a skipped model.
C5_Witness ==
    /\ pc = "done"
    /\ Len(settled) = 2
    /\ SkippedAt(1)
    /\ IsFatalFailure(completions[1])

\* C6 as stated: the reason pushed for a skipped candidate is the
\* classification of its error: 'quota exceeded' for a quota error
\* ('429', 'Too Many', 'quota', 'RESOURCE_EXHAUSTED'), else 'not found'.
C6_ReasonIsClassification ==
    \A k \in 1..Len(errors) :
        SkippableAt(k) =>
            errors[k] =
                models[k] \o SColonSpace \o
                (IF isQuotaError(settled[k].error)
                 THEN SQuotaExceeded ELSE SNotFound)

\* The message carries a quota marker, the phrase in the given spelling.
HasQuotaMarker(message, tooMany) ==
    \/ Includes(message, S429)
    \/ Includes(message, SQuota)
    \/ Includes(message, tooMany)
    \/ Includes(message, SResourceExhausted)

\* C7 as stated: an error whose message contains '429', 'quota', the phrase
\* 'too many' in any letter case, or 'RESOURCE_EXHAUSTED' is skipped.
C7_QuotaAnyCaseSkips ==
    \A k \in 1..Len(settled) :
        (RejectedAt(k)
         /\ (\/ HasQuotaMarker(settled[k].error.message, STooMany)
             \/ Includes(ToLowerCase(settled[k].error.message), STooManyLower)))
        => SkippedAt(k)

\* C7 as amended: an error whose message contains '429', 'quota',
\* 'Too Many' in exactly that spelling, or 'RESOURCE_EXHAUSTED' is skipped:
\* its entry is pushed and the cascade goes on to the next candidate.
C7_QuotaMarkersSkip ==
    \A k \in 1..Len(settled) :
        (RejectedAt(k) /\ HasQuotaMarker(settled[k].error.message, STooMany))
        => /\ SkippedAt(k)
           /\ \A c \in 1..Len(completions) :
                completions[c].error # settled[k].error

\* C7 happens: 'Too Many Requests', 'daily quota exceeded',
\* 'RESOURCE_EXHAUSTED' were each skipped in one cascade.
C7_Witness ==
    /\ Len(settled) = 3
    /\ settled[1].error.message = MsgTooManyRequests
    /\ settled[2].error.message = MsgDailyQuota
    /\ settled[3].error.message = MsgResourceExhausted
    /\ SkippedAt(3)

\* The message carries a not-found marker in the spelling isNotFoundError
\* tests for.
HasNotFoundMarker(message) ==
    Includes(message, S404) \/ Includes(message, SNotFound)

\* C8 as stated: an error whose message contains '404' or 'not found' in any
\* letter case is skipped; an error matching neither the quota nor the
\* not-found markers is fatal.
C8_NotFoundAnyCaseSkips ==
    \A k \in 1..Len(settled) :
        RejectedAt(k) =>
            LET m == settled[k].error.message
            IN  /\ HasNotFoundMarker(ToLowerCase(m)) => SkippedAt(k)
                /\ (~HasNotFoundMarker(ToLowerCase(m))
                    /\ ~HasQuotaMarker(m, STooMany)
                    /\ ~Includes(ToLowerCase(m), STooManyLower))
                   => (pc = "done" /\ completions = <<Thrown(settled[k].error)>>)

\* C8 as amended: an error whose message contains '404' or 'not found' in
\* exactly that lower-case spelling is skipped, with the reason 'not found'
\* unless the message also has '429'; an error whose message has neither
\* those markers nor '429', 'Too Many', 'quota', 'RESOURCE_EXHAUSTED' is
\* fatal and is the error thrown.
C8_NotFoundMarkersSkip ==
    \A k \in 1..Len(settled) :
        RejectedAt(k) =>
            LET m == settled[k].error.message
            IN  /\ HasNotFoundMarker(m) =>
                    /\ SkippedAt(k)
                    /\ ~Includes(m, S429) =>
                         errors[k] = models[k] \o SColonSpace \o SNotFound
                /\ (~HasNotFoundMarker(m) /\ ~HasQuotaMarker(m, STooMany))
                   => /\ pc = "done"
                      /\ k = Len(settled)
                      /\ Len(completions) = 1
                      /\ completions[1].kind = "throw"
                      /\ completions[1].error = settled[k].error

\* C8 happens: 'model is not found' was skipped and then 'Not Found' was
\* thrown as a fatal error.
C8_Witness ==
    /\ pc = "done"
    /\ Len(settled) = 2
    /\ settled[1].error.message = MsgIsNotFound
    /\ SkippedAt(1)
    /\ settled[2].error.message = MsgTitleNotFound
    /\ completions[1].error.message = MsgTitleNotFound

\* C9: the number of fn invocations of an ended cascade is the position of
\* the first candidate whose attempt succeeds or fails fatally, or N when
\* every candidate is skipped, and the invocations are on the first
\* candidates in order.
C9_InvocationCount ==
    pc = "done" =>
        LET n == Len(calls)
        IN  /\ n = Len(settled)
            /\ n >= 1
            /\ n <= Len(models)
            /\ calls = SubSeq(models, 1, n)
            /\ \A k \in 1..(n - 1) : SkippableAt(k)
            /\ \/ settled[n].ok
               \/ FatalAt(n)
               \/ SkippableAt(n) /\ n = Len(models)

\* C9 happens: two quota failures and then a success give three invocations.
C9_Witness ==
    /\ pc = "done"
    /\ Len(models) = 3
    /\ Len(calls) = 3
    /\ isQuotaError(settled[1].error)
    /\ isQuotaError(settled[2].error)
    /\ settled[3].ok

\* The message carries the header of the aggregate error or an entry
\* '<candidate>: <reason>' of its detail.
HasAggregateDetail(message) ==
    \/ Includes(message, SHeaderSentence)
    \/ \E k \in 1..Len(VISION_MODELS), r \in Reasons :
           Includes(message, VISION_MODELS[k] \o SColonSpace \o r)

\* C10: the aggregate error is thrown only after every candidate was
\* attempted and skipped, and it carries the header; an error thrown by a
\* fatal abort carries neither the header nor a per-candidate entry.
C10_AggregateOnlyWhenExhausted ==
    \A c \in 1..Len(completions) :
        completions[c].kind = "throw" =>
            /\ IsAggregateFailure(completions[c]) =>
                 /\ Len(calls) = Len(models)
                 /\ Len(errors) = Len(models)
                 /\ \A k \in 1..Len(models) : SkippedAt(k)
                 /\ Includes(completions[c].error.message, SHeaderSentence)
            /\ ~IsAggregateFailure(completions[c]) =>
                 ~HasAggregateDetail(completions[c].error.message)
            /\ Len(calls) < Len(models) =>
                 /\ ~IsAggregateFailure(completions[c])
                 /\ ~HasAggregateDetail(completions[c].error.message)

\* C10 happens: a cascade skipped an error that carries an aggregate message
\* and then aborted on a fatal error with a candidate left untried.
C10_Witness ==
    /\ pc = "done"
    /\ Len(models) = 3
    /\ Len(calls) = 2
    /\ settled[1].error.message = MsgNestedAggregate
    /\ FatalAt(2)
    /\ completions[1].kind = "throw"

\* C11: the error tryModels throws is never the quota or not-found error of
\* one attempt: it is a fatal error raised by fn or the aggregate error that
\* tryModels constructs itself.
C11_SkippedErrorsNeverSurface ==
    \A c \in 1..Len(completions) :
        completions[c].kind = "throw" =>
            /\ \A k \in 1..Len(settled) :
                 SkippableAt(k) => completions[c].error # settled[k].error
            /\ \/ IsAggregateFailure(completions[c])
               \/ IsFatalFailure(completions[c])

\* C11 happens: every candidate was skipped, the last for a quota error, and
\* the invocation ended with a throw.
C11_Witness ==
    /\ pc = "done"
    /\ Len(models) = 2
    /\ SkippableAt(1)
    /\ SkippableAt(2)
    /\ settled[2].error.message = Msg429TooManyRequests
    /\ completions[1].kind = "throw"

\* The number of fn invocations that have not settled yet.
InFlight == Len(calls) - Len(settled)

\* C12: at most one fn invocation is in flight; the next one starts only
\* when all earlier ones have settled as skipped failures; and from the loop
\* head with a model left the only step is the next invocation, with no
\* waiting step in between.
C12_OneAttemptInFlight ==
    /\ [](/\ Len(settled) <= Len(calls)
          /\ InFlight <= 1
          /\ (InFlight = 1) = (pc = "await")
          /\ \A k \in 1..(Len(calls) - 1) : SkippedAt(k))
    /\ [][calls' # calls =>
            /\ InFlight = 0
            /\ \A k \in 1..Len(calls) : SkippedAt(k)]_vars
    /\ [][(pc = "loop" /\ idx <= Len(models)) =>
            (calls' = Append(calls, models[idx]) /\ pc' = "await")]_vars

\* C12 happens: the second attempt is in flight after the first was skipped.
C12_Witness ==
    /\ pc = "await"
    /\ Len(calls) = 2
    /\ Len(settled) = 1
    /\ SkippedAt(1)

\* C17: when every fn invocation eventually settles, a started cascade ends
\* with one return or throw after at most N invocations; an invocation that
\* is awaiting fn leaves that state only by fn settling (there is no
\* timeout), so while fn does not settle nothing else happens.
C17_TerminatesWithinN ==
    /\ (pc # "idle") ~> (pc = "done" /\ Len(completions) = 1)
    /\ [](Len(calls) <= Len(models))
    /\ [][pc = "await" =>
            /\ Len(settled') = Len(settled) + 1
            /\ calls' = calls]_vars

\* C17 happens: a cascade over three candidates ended after three attempts.
C17_Witness ==
    /\ pc = "done"
    /\ Len(models) = 3
    /\ Len(calls) = 3
    /\ Len(settled) = 3
    /\ Len(completions) = 1

\* The reason recorded for skipped fn invocation k: its entry without the
\* model name and the separator.
ReasonAt(k) ==
    SubSeq(errors[k], Len(models[k]) + Len(SColonSpace) + 1, Len(errors[k]))

\* C14: what the cascade does with an error is a function of its message
\* text alone. Whatever the candidate, the list, the position and the errors
\* before it, a rejected attempt is skipped exactly when an error object made
\* elsewhere with the same message is classified as quota or not-found, it
\* aborts the cascade otherwise, and the reason recorded is the one of that
\* message; so two errors with one message get one decision and one reason.
C14_ClassificationByMessageOnly ==
    /\ \A k \in 1..Len(settled) :
         RejectedAt(k) =>
           LET fresh == ErrorBy(0, settled[k].error.message)
               skip == isQuotaError(fresh) \/ isNotFoundError(fresh)
           IN  /\ skip = (k <= Len(errors))
               /\ ~skip = /\ k = Len(settled)
                          /\ completions = <<Thrown(settled[k].error)>>
               /\ skip => errors[k] = ErrorEntry(models[k], fresh)
    /\ \A k, j \in 1..Len(settled) :
         (/\ RejectedAt(k)
          /\ RejectedAt(j)
          /\ settled[k].error.message = settled[j].error.message) =>
           /\ (k <= Len(errors)) = (j <= Len(errors))
           /\ k <= Len(errors) => ReasonAt(k) = ReasonAt(j)

\* C14 happens: 'RESOURCE_EXHAUSTED' failed the first and the second model
\* of the chat list and both were skipped, before a fatal error.
C14_Witness ==
    /\ models = SubSeq(CHAT_MODELS, 1, Len(models))
    /\ Len(settled) = 3
    /\ settled[1].error.message = MsgResourceExhausted
    /\ settled[2].error.message = MsgResourceExhausted
    /\ FatalAt(3)
    /\ Len(errors) = 2

\* Request r is a predict request that was answered after analyzeCTScan
\* threw.
PredictFailed(r) ==
    /\ reqs[r].route = "predict"
    /\ reqs[r].phase = "done"
    /\ reqs[r].outcome = "threw"

\* The cascade of request r ended by running out of models.
CascadeExhausted(r) ==
    /\ casc[r].pc = "done"
    /\ casc[r].idx > Len(ListOf(r))
    /\ casc[r].completions = <<Thrown(AggregateError(casc[r].errors))>>

\* C15: POST /api/predict answers the aggregate failure of an exhausted
\* cascade with 429 and the wait-and-retry message about all models, and a
\* missing or placeholder key with 503 and the setup message; every failure
\* gets the status and message of the first branch its error message matches,
\* in the order not-configured, all-models, quota, invalid-key, else 500.
C15_PredictStatusMapping ==
    \A r \in RequestIds :
      PredictFailed(r) =>
        LET m == reqs[r].error.message
            res == reqs[r].res
            notConfigured ==
                Includes(m, SGeminiApiKey) \/ Includes(m, SNotConfigured)
            allModels ==
                Includes(m, SAllGeminiModels) \/ Includes(m, SAllModels)
            quota ==
                \/ Includes(m, S429)
                \/ Includes(m, SQuota)
                \/ Includes(m, STooMany)
            invalidKey ==
                Includes(m, SApiKeyInvalid) \/ Includes(m, SInvalid)
        IN  /\ ~res.success
            /\ CascadeExhausted(r) =>
                 /\ reqs[r].error = AggregateError(casc[r].errors)
                 /\ res.status = 429
                 /\ res.message = UserMessageAllModels
            /\ KeyMissing(env) =>
                 /\ casc[r] = IdleCascade
                 /\ res.status = 503
                 /\ res.message = UserMessageNotConfigured
            /\ notConfigured =>
                 res.status = 503 /\ res.message = UserMessageNotConfigured
            /\ (~notConfigured /\ allModels) =>
                 res.status = 429 /\ res.message = UserMessageAllModels
            /\ (~notConfigured /\ ~allModels /\ quota) =>
                 res.status = 429 /\ res.message = UserMessageRateLimit
            /\ (~notConfigured /\ ~allModels /\ ~quota /\ invalidKey) =>
                 res.status = 401 /\ res.message = UserMessageInvalidKey
            /\ (~notConfigured /\ ~allModels /\ ~quota /\ ~invalidKey) =>
                 res.status = 500 /\ res.message = UserMessageDefault

\* C15 happens: every vision model was skipped and the predict request was
\* answered with 429.
C15_Witness ==
    \E r \in RequestIds :
        /\ PredictFailed(r)
        /\ CascadeExhausted(r)
        /\ Len(casc[r].errors) = Len(config.vision)
        /\ reqs[r].res.status = 429

\* Request r is a chatbot request with a message the handler accepts, and
\* it was answered.
ChatAnswered(r) ==
    /\ reqs[r].route = "chatbot"
    /\ reqs[r].phase = "done"
    /\ ~RejectsMessage(reqs[r].body)

\* The cascade of request r ended with the result of a model.
CascadeSucceeded(r) ==
    /\ casc[r].pc = "done"
    /\ Len(casc[r].completions) = 1
    /\ casc[r].completions[1].kind = "return"

\* The answer to request r is the rule-based reply to its message.
IsRuleBasedAnswer(r) ==
    /\ reqs[r].res.status = 200
    /\ reqs[r].res.success
    /\ reqs[r].res.engine = "rule-based"
    /\ reqs[r].res.reply = getRuleBasedResponse(reqs[r].body.message)

\* C16 as stated: a valid message is answered with 200 and success; without
\* a key, or when getChatbotResponse threw, by the rule-based responder; and
\* the engine is 'gemini' exactly when the chat cascade succeeded.
C16_GeminiIffCascadeSucceeded ==
    \A r \in RequestIds :
      ChatAnswered(r) =>
        /\ (~RouteHasKey(env) \/ reqs[r].outcome = "threw") =>
             IsRuleBasedAnswer(r)
        /\ (reqs[r].res.engine = "gemini") = CascadeSucceeded(r)

\* C16 as amended: a valid message is always answered with 200 and success;
\* without a key, or when getChatbotResponse threw (a fatal error, the
\* aggregate error, or the error of reading the text of the result), by the
\* rule-based responder; and the engine is 'gemini' exactly when
\* getChatbotResponse returned, that is when the chat cascade succeeded and
\* the text of its result could be read, the reply being that text.
C16_GeminiIffResponseReturned ==
    \A r \in RequestIds :
      ChatAnswered(r) =>
        /\ reqs[r].res.status = 200
        /\ reqs[r].res.success
        /\ (~RouteHasKey(env) \/ reqs[r].outcome = "threw") =>
             IsRuleBasedAnswer(r)
        /\ ~RouteHasKey(env) => casc[r] = IdleCascade
        /\ (reqs[r].res.engine = "gemini") = (reqs[r].outcome = "returned")
        /\ (reqs[r].outcome = "returned") =
             /\ CascadeSucceeded(r)
             /\ ~TextThrows(casc[r].completions[1].value.result)
        /\ reqs[r].res.engine = "gemini" =>
             reqs[r].res.reply = casc[r].completions[1].value.result
        /\ reqs[r].res.engine # "gemini" => IsRuleBasedAnswer(r)

\* C16 happens: the chat cascade succeeded with a blocked result, reading
\* its text threw, and the greeting was answered by the rule-based responder.
C16_Witness ==
    \E r \in RequestIds :
        /\ ChatAnswered(r)
        /\ reqs[r].body = Body(ChatHello)
        /\ CascadeSucceeded(r)
        /\ reqs[r].error = BlockedError
        /\ reqs[r].res.engine = "rule-based"
        /\ reqs[r].res.reply = "KB_HELLO"

\* analyzeCTScan or getChatbotResponse was entered for request r and ended.
FunctionEnded(r) ==
    /\ reqs[r].route \in {"predict", "direct"}
    /\ reqs[r].outcome # "none"

\* C19: with GEMINI_API_KEY unset or equal to the placeholder, analyzeCTScan
\* and getChatbotResponse throw before the cascade starts: no cascade is
\* ever started and no candidate attempted, and what the function throws is
\* its configuration error, which is not the aggregate error.
C19_NoKeyNoCascade ==
    (env = NoValue \/ env = ApiKeyPlaceholder) =>
      \A r \in RequestIds :
        /\ casc[r] = IdleCascade
        /\ reqs[r].phase # "cascade"
        /\ FunctionEnded(r) =>
             /\ reqs[r].outcome = "threw"
             /\ reqs[r].error.message =
                  IF reqs[r].route = "predict"
                  THEN VisionNotConfiguredMessage
                  ELSE ChatNotConfiguredMessage
             /\ Includes(reqs[r].error.message, SNotConfigured)
             /\ ~Includes(reqs[r].error.message, SAllGeminiModels)
             /\ reqs[r].error # AggregateError(casc[r].errors)

\* C19 happens: getChatbotResponse was called with the placeholder as the
\* key and threw 'GEMINI_API_KEY not configured'.
C19_Witness ==
    \E r \in RequestIds :
        /\ env = ApiKeyPlaceholder
        /\ reqs[r].route = "direct"
        /\ reqs[r].phase = "settled"
        /\ reqs[r].outcome = "threw"
        /\ reqs[r].error.message = ChatNotConfiguredMessage
        /\ casc[r].calls = <<>>

\* Every character of s is white space.
IsBlank(s) ==
    \A i \in 1..Len(s) : \E w \in 1..Len(WhiteSpace) : WhiteSpace[w] = s[i]

\* The handler of POST /api/chatbot ran for request r.
ChatHandled(r) ==
    /\ reqs[r].route = "chatbot"
    /\ reqs[r].phase # "handler"

\* C20: POST /api/chatbot answers a missing, an empty or a white-space-only
\* message, and a message of more than 1000 characters, with 400 and
\* success false, in the handler itself: no chat cascade is started for the
\* request, getChatbotResponse is not entered and the rule-based responder
\* is not asked.
C20_BadMessageRejected ==
    \A r \in RequestIds :
      (/\ ChatHandled(r)
       /\ \/ ~reqs[r].body.hasMessage
          \/ IsBlank(reqs[r].body.message)
          \/ Len(reqs[r].body.message) > MaxMessageLength) =>
        /\ reqs[r].phase = "done"
        /\ reqs[r].res.status = 400
        /\ ~reqs[r].res.success
        /\ reqs[r].res.engine = NoValue
        /\ reqs[r].outcome = "none"
        /\ ~reqs[r].ruleBased
        /\ casc[r] = IdleCascade

\* C20 happens: a message of 1001 characters was answered with 400 while a
\* key is configured.
C20_Witness ==
    \E r \in RequestIds :
        /\ ChatHandled(r)
        /\ RouteHasKey(env)
        /\ Len(reqs[r].body.message) = MaxMessageLength + 1
        /\ reqs[r].res.status = 400
        /\ reqs[r].res.message = SMessageTooLong

\* The number of attempts of request r that were skipped: all that settled,
\* but for the one that ended the cascade by a result or a fatal error.
SkippedBy(r) ==
    IF /\ casc[r].pc = "done"
       /\ casc[r].idx <= Len(ListOf(r))
    THEN Len(casc[r].settled) - 1
    ELSE Len(casc[r].settled)

\* What the attempts of request r alone make its accumulator: one entry for
\* each skipped attempt, naming the model of its own list at that position.
OwnEntries(r) ==
    [k \in 1..SkippedBy(r) |->
        ErrorEntry(ListOf(r)[k], casc[r].settled[k].error)]

\* What the attempts of request r alone make its outcome.
OwnCompletion(r) ==
    LET n == Len(casc[r].settled)
    IN  IF casc[r].pc # "done" THEN <<>>
        ELSE IF casc[r].idx > Len(ListOf(r))
        THEN <<Thrown(AggregateError(OwnEntries(r)))>>
        ELSE IF casc[r].settled[n].ok
        THEN <<Returned(casc[r].settled[n].value, ListOf(r)[n])>>
        ELSE <<Thrown(casc[r].settled[n].error)>>

\* C13: cascades of overlapping requests share no mutable state. The
\* accumulated reasons and the outcome of each are those its own attempts
\* make, whatever the other request did in between; a cascade starts with an
\* empty accumulator; a step of one cascade leaves the other as it was; and
\* VISION_MODELS and CHAT_MODELS are never modified.
C13_NoSharedState ==
    /\ [](/\ config = ModuleConfig
          /\ \A r \in RequestIds :
               casc[r].pc # "idle" =>
                 /\ casc[r].errors = OwnEntries(r)
                 /\ casc[r].completions = OwnCompletion(r))
    /\ [][/\ config' = config
          /\ \A r \in RequestIds :
               /\ (casc[r].pc = "idle" /\ casc'[r].pc # "idle") =>
                    casc'[r].errors = <<>> /\ casc'[r].settled = <<>>
               /\ casc'[r] # casc[r] =>
                    \A q \in RequestIds \ {r} : casc'[q] = casc[q]]_vars

\* C13 happens: a vision cascade and a chat cascade overlap, the first
\* awaiting its second model after one skip and the other its third after
\* two.
C13_Witness ==
    \E r, q \in RequestIds :
        /\ casc[r].list = "vision"
        /\ casc[q].list = "chat"
        /\ casc[r].pc = "await"
        /\ casc[q].pc = "await"
        /\ Len(casc[r].errors) = 1
        /\ Len(casc[q].errors) = 2

\* Request r is a predict request whose image was stored.
Uploaded(r) == reqs[r].route = "predict" /\ reqs[r].file # NoFile

\* Request r was answered after its analysis failed.
AnalysisFailed(r) ==
    Uploaded(r) /\ reqs[r].phase = "done" /\ reqs[r].outcome = "threw"

\* Request r was answered after its analysis succeeded.
AnalysisSucceeded(r) ==
    Uploaded(r) /\ reqs[r].phase = "done" /\ reqs[r].outcome = "returned"

\* C18 as stated: the file of a request whose analysis failed is removed and
\* the file of one whose analysis succeeded is kept, so the uploads folder
\* holds only the files of requests that succeeded or are in progress.
C18_FailedUploadsRemoved ==
    /\ \A r \in RequestIds :
         /\ AnalysisFailed(r) => reqs[r].file \notin uploads
         /\ AnalysisSucceeded(r) => reqs[r].file \in uploads
    /\ uploads \subseteq
         { FileOf(r) : r \in { q \in RequestIds :
             Uploaded(q) /\ (reqs[q].phase # "done" \/ AnalysisSucceeded(q)) } }

\* C18 as amended: the file of a request whose analysis failed (whatever was
\* thrown: the configuration error, a fatal error, the aggregate error, the
\* error of reading the text) is removed unless removing it failed, which
\* the handler ignores; the file of one whose analysis succeeded is kept; so
\* the uploads folder holds exactly the files of the requests that
\* succeeded, are in progress, or failed and could not be removed.
C18_FailedUploadsRemovedIfUnlinkWorks ==
    /\ \A r \in RequestIds :
         /\ AnalysisFailed(r) =>
              (reqs[r].file \in uploads) = reqs[r].unlinkFailed
         /\ AnalysisSucceeded(r) => reqs[r].file \in uploads
    /\ uploads =
         { FileOf(r) : r \in { q \in RequestIds :
             /\ Uploaded(q)
             /\ \/ reqs[q].phase # "done"
                \/ AnalysisSucceeded(q)
                \/ reqs[q].unlinkFailed } }

\* C18 happens: of two predict requests, one failed with the aggregate error
\* and its file is gone, the other succeeded and its file is there.
C18_Witness ==
    \E r, q \in RequestIds :
        /\ AnalysisFailed(r)
        /\ CascadeExhausted(r)
        /\ reqs[r].file \notin uploads
        /\ AnalysisSucceeded(q)
        /\ uploads = {reqs[q].file}

\* The card that goes with a status of POST /api/predict.
CardFor(status) ==
    CASE status = 429 -> "rateLimit"
      [] status = 503 -> "noApiKey"
      [] status = 401 -> "badApiKey"
      [] OTHER -> "generic"

\* C21 as stated: when the error shown is the message of an error response
\* of POST /api/predict, classifyError selects the card of its status:
\* rateLimit for 429, noApiKey for 503, badApiKey for 401, generic for 500.
C21_CardMatchesStatus ==
    \A id \in 1..Len(sent) :
        (/\ sent[id].state = "rejected"
         /\ sent[id].failure.status # 0
         /\ appError = ErrorMessage(handleAPIError(sent[id].failure))) =>
            classifyError(appError) = CardFor(sent[id].failure.status)

\* C22: App shows one of the pages home, scan and results, and the results
\* page only with a result, so its 'No results available' banner is never
\* shown, however navigation and the settling of uploads interleave.
C22_ResultsPageHasResult ==
    /\ currentPage \in {"home", "scan", "results"}
    /\ currentPage = "results" => ~appResult.isNull

\* C22 happens: the second upload succeeded while the home page was shown
\* and the results page shows its response.
C22_Witness ==
    /\ Len(sent) = 2
    /\ sent[2].state = "resolved"
    /\ sent[2].page = "home"
    /\ currentPage = "results"
    /\ appResult = ResponseOf(2)

\* C23: at most one upload is in flight. isLoading is true exactly while an
\* upload is unsettled; an upload starts only from the scan page with a file
\* selected while nothing is loading, so not while the button is disabled,
\* wherever the user went in between; and the step that settles an upload,
\* with a response or an error, ends with isLoading false.
C23_OneUploadInFlight ==
    /\ [](/\ Cardinality(PendingUploads) <= 1
          /\ isLoading = (PendingUploads # {}))
    /\ [][Len(sent') > Len(sent) =>
            /\ ~isLoading
            /\ PendingUploads = {}
            /\ currentPage = "scan"
            /\ selectedFile
            /\ isLoading']_vars
    /\ [][(\E id \in PendingUploads : sent'[id].state # "pending") =>
            ~isLoading']_vars

\* C23 happens: an upload is in flight, the user is on the scan page again
\* with a file selected after an earlier upload failed elsewhere, and the
\* button is disabled.
C23_Witness ==
    /\ Len(sent) = 2
    /\ sent[1].state = "rejected"
    /\ sent[1].page = "home"
    /\ sent[2].state = "pending"
    /\ isLoading
    /\ currentPage = "scan"
    /\ selectedFile

\* C24: the step in which an upload succeeds sets result to its response
\* and currentPage to 'results', whatever page is shown; the step in which
\* an upload fails sets error to the message of its error and changes
\* neither currentPage nor result.
C24_UploadOutcome ==
    [][\A id \in PendingUploads :
         /\ sent'[id].state = "resolved" =>
              /\ appResult' = ResponseOf(id)
              /\ currentPage' = "results"
         /\ sent'[id].state = "rejected" =>
              /\ appError' = ErrorMessage(handleAPIError(sent'[id].failure))
              /\ ~appError'.isNull
              /\ currentPage' = currentPage
              /\ appResult' = appResult]_vars

\* C24 happens: the upload succeeded while the home page was shown and the
\* results page shows its response.
C24_Witness ==
    /\ Len(sent) = 1
    /\ sent[1].state = "resolved"
    /\ sent[1].page = "home"
    /\ currentPage = "results"
    /\ appResult = ResponseOf(1)

\* C25: a step of handleNavigate(page) sets currentPage to page and result
\* and error to null, and changes neither isLoading, nor backendStatus, nor
\* the uploads in flight.
C25_NavigateFrame ==
    [][\A page \in NavPages :
         handleNavigate(page) =>
           /\ currentPage' = page
           /\ appResult' = NullResult
           /\ appError' = NullError
           /\ isLoading' = isLoading
           /\ backendStatus' = backendStatus
           /\ sent' = sent]_vars

\* C25 happens: the user went to the home page while an upload is in
\* flight: it is still in flight and the spinner still on.
C25_Witness ==
    /\ currentPage = "home"
    /\ isLoading
    /\ PendingUploads = {1}
    /\ appResult = NullResult
    /\ appError = NullError
    /\ backendStatus = "online"

\* The messages of the conversation before the one being sent.
PriorMessages == SubSeq(messages, 1, Len(messages) - 1)

\* C26: the history of the request in flight is the prior messages, the
\* last ten of them when there are more, in their order, each with the text
\* it had and the role 'user' for a message of the user and 'model' for one
\* of the bot; the message being sent, the last of the conversation, is not
\* among them. What getChatbotResponse gives to startChat is the turns it
\* received whose role is 'user' or 'model', in their order, and no other.
C26_HistoryIsLastTenPrior ==
    /\ chatRequest.pending =>
         LET h == chatRequest.history
             first == Len(PriorMessages) - Len(h)
         IN  /\ Len(h) <= HistoryLimit
             /\ Len(h) = IF Len(PriorMessages) < HistoryLimit
                         THEN Len(PriorMessages)
                         ELSE HistoryLimit
             /\ \A i \in 1..Len(h) :
                  /\ h[i].text = PriorMessages[first + i].text
                  /\ h[i].role \in {"user", "model"}
                  /\ (h[i].role = "user") =
                       (PriorMessages[first + i].type = "user")
             /\ messages[Len(messages)].type = "user"
             /\ messages[Len(messages)].text = chatRequest.message
    /\ LET received == conversation.received
           forwarded == conversation.forwarded
           kept == { i \in 1..Len(received) :
                       received[i].role \in {"user", "model"} }
       IN  /\ \A i \in 1..Len(forwarded) :
                forwarded[i].role \in {"user", "model"}
           /\ Len(forwarded) = Cardinality(kept)
           /\ \A i \in kept :
                forwarded[Cardinality({ j \in kept : j <= i })] = received[i]

\* C26 happens: the sixth message is being sent after eleven others; the
\* history holds ten turns, without the greeting, and the backend received
\* it.
C26_Witness ==
    /\ chatRequest.pending
    /\ Len(messages) = 12
    /\ Len(chatRequest.history) = HistoryLimit
    /\ chatRequest.history[1].role = "user"
    /\ chatRequest.history[1].text = messages[2].text
    /\ conversation.received = chatRequest.history
    /\ conversation.forwarded = chatRequest.history

====
